---- MODULE Spec2Model ----
(***************************************************************************)
(* A model of OpenAtlas: authorization (util.required_group,               *)
(* util.is_authorized), login and password reset (views/login.py), the     *)
(* link table (models/link.py),                                            *)
(* the place and event views (views/place.py, views/event.py) and the      *)
(* entity model (models/entity.py).                                        *)
(*                                                                         *)
(* Each subsystem has its own specification over the shared variables:     *)
(*   SpecAuth   protected views, login and logout with users of every group*)
(*   SpecLogin  login, logout and the clock (failed-attempt bookkeeping)   *)
(*   SpecLink   LinkMapper.insert and its check against the CIDOC tables   *)
(*   SpecRelation  LinkMapper: insert, update, delete and the two read     *)
(*              directions of model.link, on the actors of test_relation   *)
(*   SpecReset  reset_password, reset_confirm and the clock                *)
(*   SpecDates  Entity.update with the date fields of a DateForm           *)
(*   SpecPlace  place_insert and place_update: save() and its transaction, *)
(*              where any write may raise, and place_index with its delete *)
(*   SpecConcurrent  two place_update requests whose steps interleave      *)
(*   SpecEvent  event_insert, event_update, event_delete and the root event*)
(*   SpecSimilar  Entity.get_similar_named                                 *)
(***************************************************************************)
EXTENDS Integers, Sequences, FiniteSets, TLC

VARIABLES
    users,          \* web.user rows, by username
    current_user,   \* flask_login.current_user of the browser session
    session,        \* flask session keys written by login()
    now,            \* datetime.datetime.now(), in ticks
    generated,      \* how many values UserMapper.generate_password has returned
    entities,       \* model.entity rows, by id
    links,          \* model.link rows
    link_seq,       \* the last id the serial of model.link gave out
    entity_seq,     \* the last id the serial of model.entity gave out
    gis,            \* gis rows: the shapes of the locations
    user_log,       \* web.user_log rows
    pending,        \* place_update requests between was_modified and save()
    response        \* what the last request did and answered

authVars == <<users, current_user, session, now, generated>>
linkVars == <<entities, links, link_seq>>
placeVars == <<entity_seq, gis, user_log, pending>>
vars == <<users, current_user, session, now, generated, entities, links, link_seq,
          entity_seq, gis, user_log, pending, response>>

None == "None"

\* an optional number (a timestamp, a count): <<>> is Python's None
Nothing == <<>>
Some(x) == <<x>>

(***************************************************************************)
(* Bounds of the model.                                                    *)
(***************************************************************************)
MaxTime == 2            \* the clock runs from 0 to MaxTime
MaxFailedCount == 3     \* cap of login_failed_count
MaxLinks == 2           \* ids the serial of model.link gives out to relations
MaxStored == 1          \* ids the serial of model.link gives out to residences
MaxRange == 2           \* length of the range_ list of LinkMapper.insert

(***************************************************************************)
(* Users and groups.                                                       *)
(***************************************************************************)
\* the group names util.is_authorized compares with
Groups == {"admin", "manager", "editor", "contributor", "readonly"}

\* AnonymousUserMixin: not authenticated, has no attribute group
Anonymous == "anonymous"

\* the usernames of the test fixtures (tests/test_user.py)
Usernames == {"Alice", "Editor"}

\* a username no web.user row has
UnknownUsername == "Nobody"

Passwords == {"test", "wrong"}

\* request.path of the protected views, and request.args.get('next')
Paths == {"/user/insert"}

is_authenticated(user) == user # Anonymous

\* hasattr(current_user, 'group')
has_group(user) == user \in DOMAIN users

\* the group comparison with contributor handled like readonly
group_authorized_flat(user_group, group) ==
    \/ user_group = "admin"
    \/ user_group = "manager" /\ group \in {"manager", "editor", "contributor", "readonly"}
    \/ user_group = "editor" /\ group \in {"editor", "contributor", "readonly"}
    \/ user_group = "contributor" /\ group \in {"readonly"}
    \/ user_group = "readonly" /\ group = "readonly"

\* the group comparison with a manager not authorized for 'manager'
group_authorized_mut(user_group, group) ==
    \/ user_group = "admin"
    \/ user_group = "manager" /\ group \in {"editor", "contributor", "readonly"}
    \/ user_group = "editor" /\ group \in {"editor", "contributor", "readonly"}
    \/ user_group = "contributor" /\ group \in {"contributor", "readonly"}
    \/ user_group = "readonly" /\ group = "readonly"

\* util.is_authorized, the condition of its second if
group_authorized(user_group, group) ==
    \/ user_group = "admin"
    \/ user_group = "manager" /\ group \in {"manager", "editor", "contributor", "readonly"}
    \/ user_group = "editor" /\ group \in {"editor", "contributor", "readonly"}
    \/ user_group = "contributor" /\ group \in {"contributor", "readonly"}
    \/ user_group = "readonly" /\ group = "readonly"

\* util.is_authorized
is_authorized(group) ==
    IF ~is_authenticated(current_user) \/ ~has_group(current_user)
    THEN FALSE
    ELSE IF group_authorized(users[current_user].group, group) THEN TRUE ELSE FALSE

\* required_group whose wrapper tests authorization only
required_group_mut(group) ==
    IF ~is_authorized(group) THEN "abort_403" ELSE "run"

\* util.required_group: what wrapped() does before the view body
required_group(group) ==
    IF ~is_authenticated(current_user) THEN "redirect_login"
    ELSE IF ~is_authorized(group) THEN "abort_403"
    ELSE "run"

(***************************************************************************)
(* Passwords: bcrypt.hashpw(password, salt_or_hash) keeps the salt of its  *)
(* second argument and digests the password with it.                       *)
(***************************************************************************)
Salt == [u \in Usernames |-> IF u = "Alice" THEN "salt_a" ELSE "salt_e"]

hashpw(password, hash_) == <<hash_[1], password>>

\* the password each fixture user was created with
InitialPassword == [u \in Usernames |-> "test"]


(***************************************************************************)
(* Settings read from session['settings'] (web.settings rows).             *)
(***************************************************************************)
failed_login_tries == 2
failed_login_forget_minutes == 1

\* User.login_attempts_exceeded (models/user.py)
login_attempts_exceeded(user) ==
    IF user.login_last_failure = Nothing \/ user.login_failed_count < failed_login_tries
    THEN FALSE
    ELSE user.login_last_failure[1] + failed_login_forget_minutes > now

\* UserMapper.get_by_username: the rows with that username (one or none)
get_by_username(username) ==
    {users[u] : u \in {x \in DOMAIN users : x = username}}

\* the response of a request, with the fields every handler fills
Answer(op, kind, target, flash) ==
    [op |-> op, kind |-> kind, target |-> target, flash |-> flash]

(***************************************************************************)
(* views/login.py: login()                                                 *)
(*   submitted: form.validate_on_submit(), a POST with both fields filled  *)
(*   next_: request.args.get('next')                                       *)
(***************************************************************************)
\* login() that does not look at user.active
login_branch_mut(username, password) ==
    IF get_by_username(username) = {} THEN "wrong_username"
    ELSE LET user == CHOOSE row \in get_by_username(username) : TRUE IN
    IF login_attempts_exceeded(user) THEN "exceeded"
    ELSE IF hashpw(password, user.password) = user.password
         THEN "login"
         ELSE "wrong_password"

\* login() that does not ask login_attempts_exceeded
login_branch_unlimited(username, password) ==
    IF get_by_username(username) = {} THEN "wrong_username"
    ELSE LET user == CHOOSE row \in get_by_username(username) : TRUE IN
    IF hashpw(password, user.password) = user.password
    THEN IF user.active THEN "login" ELSE "inactive"
    ELSE "wrong_password"

\* what login() does with the user row it found: "login", "inactive",
\* "wrong_password", "exceeded" or "wrong_username"
login_branch(username, password) ==
    IF get_by_username(username) = {} THEN "wrong_username"
    ELSE LET user == CHOOSE row \in get_by_username(username) : TRUE IN
    IF login_attempts_exceeded(user) THEN "exceeded"
    ELSE IF hashpw(password, user.password) = user.password
         THEN IF user.active THEN "login" ELSE "inactive"
         ELSE "wrong_password"

login(username, password, submitted, next_) ==
    LET branch == login_branch(username, password)
        info == [username |-> username, password |-> password,
                 submitted |-> submitted]
    IN
    IF is_authenticated(current_user)
    THEN /\ response' = Answer("login", "redirect", "/", None) @@ info
                        @@ [login_user |-> FALSE]
         /\ UNCHANGED authVars
    ELSE IF ~submitted
    THEN /\ response' = Answer("login", "render", "login/index.html", None) @@ info
                        @@ [login_user |-> FALSE]
         /\ UNCHANGED authVars
    ELSE IF branch = "login"
    THEN /\ current_user' = username
         /\ session' = [login_previous_success |-> users[username].login_last_success,
                        login_previous_failures |-> Some(users[username].login_failed_count)]
         /\ users' = [users EXCEPT ![username].login_last_success = Some(now),
                                   ![username].login_failed_count = 0]
         /\ response' = Answer("login", "redirect",
                               IF next_ # None THEN next_ ELSE "/index", None)
                        @@ info @@ [login_user |-> TRUE]
         /\ UNCHANGED <<now, generated>>
    ELSE IF branch = "wrong_password"
    THEN /\ users[username].login_failed_count < MaxFailedCount
         /\ users' = [users EXCEPT
                ![username].login_failed_count = users[username].login_failed_count + 1,
                ![username].login_last_failure = Some(now)]
         /\ response' = Answer("login", "render", "login/index.html",
                               "error wrong password")
                        @@ info @@ [login_user |-> FALSE]
         /\ UNCHANGED <<current_user, session, now, generated>>
    ELSE /\ response' = Answer("login", "render", "login/index.html",
                               CASE branch = "exceeded" -> "error login attempts exceeded"
                                 [] branch = "inactive" -> "error inactive"
                                 [] OTHER -> "error username")
                        @@ info @@ [login_user |-> FALSE]
         /\ UNCHANGED authVars

\* views/login.py: logout(), behind login_required
logout ==
    /\ IF is_authenticated(current_user)
       THEN /\ current_user' = Anonymous
            /\ response' = Answer("logout", "redirect", "/login", None)
       ELSE /\ current_user' = current_user
            /\ response' = Answer("logout", "redirect", "/login?next=/logout", None)
    /\ UNCHANGED <<users, session, now, generated>>

(***************************************************************************)
(* A view decorated with required_group(group), e.g. event_insert          *)
(* ('editor'), place_index ('readonly'), place_insert ('contributor').     *)
(***************************************************************************)
protected_view(group, path) ==
    LET outcome == required_group(group) IN
    /\ response' =
         (CASE outcome = "redirect_login" ->
                 Answer("view", "redirect", "/login?next=" \o path, None)
            [] outcome = "abort_403" -> Answer("view", "abort", "403", None)
            [] OTHER -> Answer("view", "render", path, None))
         @@ [group |-> group, path |-> path, body_ran |-> outcome = "run"]
    /\ UNCHANGED authVars

\* time passes
Tick ==
    /\ now < MaxTime
    /\ now' = now + 1
    /\ response' = Answer("tick", None, None, None)
    /\ UNCHANGED <<users, current_user, session, generated>>

(***************************************************************************)
(* Initial states and specifications.                                      *)
(***************************************************************************)
\* the email address of each fixture user
Email == [u \in Usernames |-> IF u = "Alice" THEN "alice@example.com"
                              ELSE "editor@example.com"]

UserRow(username, group, active) ==
    [password |-> hashpw(InitialPassword[username], <<Salt[username], None>>),
     active |-> active,
     group |-> group,
     login_failed_count |-> 0,
     login_last_failure |-> Nothing,
     login_last_success |-> Nothing,
     email |-> Email[username],
     password_reset_code |-> None,
     password_reset_date |-> Nothing]

NoSession == [login_previous_success |-> Nothing, login_previous_failures |-> Nothing]

\* the variables a specification of another subsystem leaves alone
NoLinks ==
    /\ entities = <<>>
    /\ links = {}
    /\ link_seq = 0
    /\ entity_seq = 0
    /\ gis = {}
    /\ user_log = {}
    /\ pending = {}

\* a user of any group and the fixture user Editor, active or not; nobody is logged in
InitAuth ==
    /\ NoLinks
    /\ \E g \in Groups, a \in BOOLEAN :
         users = [u \in Usernames |->
                    IF u = "Alice" THEN UserRow(u, g, TRUE) ELSE UserRow(u, "editor", a)]
    /\ current_user = Anonymous
    /\ session = NoSession
    /\ now = 0
    /\ generated = 0
    /\ response = Answer("init", None, None, None)

LoginRequest ==
    /\ \E username \in Usernames \cup {UnknownUsername}, password \in Passwords,
          submitted \in BOOLEAN, next_ \in Paths \cup {None} :
           login(username, password, submitted, next_)
    /\ UNCHANGED <<linkVars, placeVars>>

LogoutRequest == logout /\ UNCHANGED <<linkVars, placeVars>>

ViewRequest ==
    /\ \E group \in Groups, path \in Paths : protected_view(group, path)
    /\ UNCHANGED <<linkVars, placeVars>>

ClockTick == Tick /\ UNCHANGED <<linkVars, placeVars>>

NextAuth ==
    \/ LoginRequest
    \/ LogoutRequest
    \/ ViewRequest

SpecAuth == InitAuth /\ [][NextAuth]_vars

\* the fixture users: Alice (admin, active) and Editor (editor), here deactivated
InitLogin ==
    /\ NoLinks
    /\ users = [u \in Usernames |->
                    IF u = "Alice" THEN UserRow(u, "admin", TRUE)
                    ELSE UserRow(u, "editor", FALSE)]
    /\ current_user = Anonymous
    /\ session = NoSession
    /\ now = 0
    /\ generated = 0
    /\ response = Answer("init", None, None, None)

NextLogin ==
    \/ LoginRequest
    \/ LogoutRequest
    \/ ClockTick

SpecLogin == InitLogin /\ [][NextLogin]_vars


(***************************************************************************)
(* views/login.py: reset_password() and reset_confirm(code).               *)
(*   mail: session['settings']['mail']; sent: what send_mail returns       *)
(*                                                                         *)
(* UserMapper.generate_password returns a random string: the model gives   *)
(* out the strings of Generated one after the other, so that no value is   *)
(* returned twice.                                                         *)
(***************************************************************************)
MaxGenerated == 3       \* calls of UserMapper.generate_password

Generated == <<"k1", "k2", "k3", "k4", "k5">>

\* UserMapper.generate_password()
generate_password == Generated[generated + 1]

\* bcrypt.gensalt()
gensalt == <<"salt_r", None>>

\* session['settings']['reset_confirm_hours'], in ticks of the clock
reset_confirm_hours == 1

\* UserMapper.get_by_email: the usernames with that address
get_by_email(email) == {u \in DOMAIN users : users[u].email = email}

\* UserMapper.get_by_reset_code: the usernames that hold the code
get_by_reset_code(code) == {u \in DOMAIN users : users[u].password_reset_code = code}

reset_password(email, submitted, mail, sent) ==
    LET info == [email |-> email] IN
    IF ~(submitted /\ mail)
    THEN /\ response' = Answer("reset_password", "render", "login/reset_password.html",
                               None) @@ info @@ [issued |-> None]
         /\ UNCHANGED authVars
    ELSE IF get_by_email(email) = {}
    THEN /\ response' = Answer("reset_password", "render", "login/reset_password.html",
                               "error non existing email") @@ info @@ [issued |-> None]
         /\ UNCHANGED authVars
    ELSE LET user == CHOOSE u \in get_by_email(email) : TRUE
             code == generate_password
         IN  /\ generated < MaxGenerated
             /\ generated' = generated + 1
             /\ users' = [users EXCEPT ![user].password_reset_code = code,
                                       ![user].password_reset_date = Some(now)]
             /\ response' = Answer("reset_password", "redirect", "/login",
                                   IF sent THEN "A password reset confirm mail send to "
                                   ELSE "Failed to send password confirmation mail to ")
                            @@ info @@ [issued |-> code]
             /\ UNCHANGED <<current_user, session, now>>

\* a code that never runs out
reset_code_expired_mut(user) == FALSE

\* reset_confirm, line 116: the code was issued more than reset_confirm_hours ago
reset_code_expired(user) == now > user.password_reset_date[1] + reset_confirm_hours

\* a confirmation that leaves the code with the user
confirmed_mut(user, password) ==
    [user EXCEPT !.password = hashpw(password, gensalt)]

\* reset_confirm, lines 121-123: the user row it writes
confirmed(user, password) ==
    [user EXCEPT !.password = hashpw(password, gensalt),
                 !.password_reset_code = None,
                 !.password_reset_date = Nothing]

reset_confirm(code, sent) ==
    LET info == [code |-> code] IN
    IF get_by_reset_code(code) = {}
    THEN /\ response' = Answer("reset_confirm", "abort", "404",
                               "invalid password reset confirmation code")
                        @@ info @@ [password |-> None]
         /\ UNCHANGED authVars
    ELSE LET user == CHOOSE u \in get_by_reset_code(code) : TRUE
             password == generate_password
         IN  IF reset_code_expired(users[user])
             THEN /\ response' = Answer("reset_confirm", "abort", "404",
                                        "This reset confirmation code has expired.")
                                 @@ info @@ [password |-> None]
                  /\ UNCHANGED authVars
             ELSE /\ generated < MaxGenerated
                  /\ generated' = generated + 1
                  /\ users' = [users EXCEPT ![user] = confirmed(@, password)]
                  /\ response' = Answer("reset_confirm", "render",
                                        "login/reset_confirm.html",
                                        IF sent THEN "New password mail to "
                                        ELSE "Failed to send password mail to ")
                                 @@ info @@ [password |-> password]
                  /\ UNCHANGED <<current_user, session, now>>

\* the codes a request may bring: every string generate_password may have
\* returned, and one it never returns
Codes == {Generated[i] : i \in 1..MaxGenerated} \cup {"unknown"}

ResetPassword ==
    /\ \E email \in {Email[u] : u \in Usernames} \cup {"nobody@example.com"},
          submitted \in BOOLEAN, mail \in BOOLEAN, sent \in BOOLEAN :
           reset_password(email, submitted, mail, sent)
    /\ UNCHANGED <<linkVars, placeVars>>

ResetConfirm ==
    /\ \E code \in Codes, sent \in BOOLEAN : reset_confirm(code, sent)
    /\ UNCHANGED <<linkVars, placeVars>>

NextReset ==
    \/ ResetPassword
    \/ ResetConfirm
    \/ ClockTick

\* SpecReset: the fixture users, nobody holds a reset code
SpecReset == InitLogin /\ [][NextReset]_vars

(***************************************************************************)
(* Claims about authorization, checked under SpecAuth.                     *)
(***************************************************************************)

\* C1: a view decorated with required_group(g) redirects an unauthenticated
\* request to the login page with next = request.path, answers 403 to an
\* authenticated user for whom is_authorized(g) is false, and runs its body
\* otherwise; the body runs only for an authenticated and authorized user.
Thm_C1_required_group ==
    response.op = "view" =>
        /\ ~is_authenticated(current_user) =>
              /\ response.kind = "redirect"
              /\ response.target = "/login?next=" \o response.path
              /\ ~response.body_ran
        /\ (is_authenticated(current_user) /\ ~is_authorized(response.group)) =>
              /\ response.kind = "abort"
              /\ response.target = "403"
              /\ ~response.body_ran
        /\ (is_authenticated(current_user) /\ is_authorized(response.group)) =>
              /\ response.kind = "render"
              /\ response.body_ran
        /\ response.body_ran =>
              is_authenticated(current_user) /\ is_authorized(response.group)

\* an editor was refused a view that requires admin (tests/test_user.py, 35-37)
Wit_C1_forbidden ==
    /\ response.op = "view"
    /\ response.kind = "abort"
    /\ response.group = "admin"
    /\ current_user = "Editor"

\* the position of a group in admin > manager > editor > contributor > readonly
Rank(group) ==
    CASE group = "admin" -> 5
      [] group = "manager" -> 4
      [] group = "editor" -> 3
      [] group = "contributor" -> 2
      [] group = "readonly" -> 1

\* C2: is_authorized(g) is true exactly when the current user is authenticated
\* and the user's group is at the same or a higher position than g in
\* admin > manager > editor > contributor > readonly; for an unauthenticated
\* user it is false for every g.
Thm_C2_rank_comparison ==
    \A g \in Groups :
        is_authorized(g) <=>
            /\ is_authenticated(current_user)
            /\ Rank(users[current_user].group) >= Rank(g)

\* a logged-in manager passed a view for managers and is not authorized as admin
Wit_C2_manager ==
    /\ is_authenticated(current_user)
    /\ users[current_user].group = "manager"
    /\ response.op = "view" /\ response.group = "manager" /\ response.body_ran
    /\ ~is_authorized("admin")

\* the sets of required groups a user group is authorized for, over all user groups
PrivilegeLevels ==
    {{g \in Groups : group_authorized(user_group, g)} : user_group \in Groups}

\* the required groups the current user is authorized for
CurrentLevel == {g \in Groups : is_authorized(g)}

\* C3 as stated: whenever a logged-in user requests a protected view, the
\* user's privilege level is one of exactly four distinct levels.
Orig_C3_four_tiers ==
    (response.op = "view" /\ is_authenticated(current_user)) =>
        /\ CurrentLevel \in PrivilegeLevels
        /\ Cardinality(PrivilegeLevels) = 4

\* C3 as amended: the five user groups yield exactly five pairwise different
\* sets of required groups they are authorized for, and the level of a
\* logged-in user is one of them.
Thm_C3_five_tiers ==
    (response.op = "view" /\ is_authenticated(current_user)) =>
        /\ CurrentLevel \in PrivilegeLevels
        /\ Cardinality(PrivilegeLevels) = 5
        /\ \A g1, g2 \in Groups :
             g1 # g2 => {g \in Groups : group_authorized(g1, g)}
                         # {g \in Groups : group_authorized(g2, g)}

\* a logged-in contributor passes a view for contributors that a readonly user
\* would not pass, and is refused one for editors
Wit_C3_contributor ==
    /\ is_authenticated(current_user)
    /\ users[current_user].group = "contributor"
    /\ response.op = "view" /\ response.group = "editor" /\ response.kind = "abort"
    /\ is_authorized("contributor")
    /\ ~group_authorized("readonly", "contributor")

(***************************************************************************)
(* Claims about login, checked under SpecLogin.                            *)
(***************************************************************************)

\* the four conditions of C10, on the state before the request
AllFour(username, password) ==
    /\ username \in DOMAIN users
    /\ ~login_attempts_exceeded(users[username])
    /\ hashpw(password, users[username].password) = users[username].password
    /\ users[username].active

RendersLoginPage(r) == r.kind = "render" /\ r.target = "login/index.html"

\* C10 as stated: login_user is called only if the user exists, the attempts
\* are not exceeded, the password matches and the user is active; in every
\* other case the login page is rendered again and no session is established.
Orig_C10_login ==
    [][response'.op = "login" =>
        LET r == response' IN
        /\ r.login_user => (r.submitted /\ AllFour(r.username, r.password))
        /\ ~(r.submitted /\ AllFour(r.username, r.password)) =>
              /\ RendersLoginPage(r)
              /\ ~r.login_user
              /\ current_user' = current_user
    ]_vars

\* C10 as amended: the same for a request that is not yet authenticated; a
\* request of an authenticated session is redirected to '/' whatever it
\* submits, and the session stays as it is.
Thm_C10_login ==
    [][response'.op = "login" =>
        LET r == response' IN
        /\ r.login_user =>
              /\ r.submitted /\ AllFour(r.username, r.password)
              /\ ~is_authenticated(current_user)
              /\ current_user' = r.username
        /\ (~is_authenticated(current_user)
                /\ ~(r.submitted /\ AllFour(r.username, r.password))) =>
              /\ RendersLoginPage(r)
              /\ ~r.login_user
              /\ current_user' = Anonymous
        /\ is_authenticated(current_user) =>
              /\ r.kind = "redirect" /\ r.target = "/"
              /\ ~r.login_user
              /\ current_user' = current_user
    ]_vars

\* Alice logged in after a failed attempt was counted
Wit_C10_logged_in ==
    /\ response.op = "login"
    /\ response.login_user
    /\ current_user = "Alice"
    /\ session.login_previous_failures = Some(1)


\* the password submitted is the one of the user row
PasswordMatches(user, password) == hashpw(password, user.password) = user.password

\* a submitted wrong password was counted for the user u
FailureCounted(u) ==
    /\ response'.op = "login"
    /\ response'.submitted
    /\ response'.username = u
    /\ ~login_attempts_exceeded(users[u])
    /\ ~PasswordMatches(users[u], response'.password)
    /\ users'[u] = [users[u] EXCEPT !.login_failed_count = @ + 1,
                                    !.login_last_failure = Some(now)]

\* a successful login reset the count of the user u
CountReset(u) ==
    /\ response'.op = "login"
    /\ response'.login_user
    /\ response'.username = u
    /\ session' = [login_previous_success |-> users[u].login_last_success,
                   login_previous_failures |-> Some(users[u].login_failed_count)]
    /\ users'[u] = [users[u] EXCEPT !.login_failed_count = 0,
                                    !.login_last_success = Some(now)]

\* a login request that login() refuses without counting it
Refused(r) ==
    /\ r.op = "login"
    /\ r.submitted
    /\ \/ r.username \notin DOMAIN users
       \/ login_attempts_exceeded(users[r.username])
       \/ PasswordMatches(users[r.username], r.password) /\ ~users[r.username].active

\* C11: in every step a user record either stays as it is, or its
\* login_failed_count goes up by exactly 1 with login_last_failure set (a
\* submitted wrong password for an existing user whose attempts are not
\* exceeded), or the count is reset to 0 with login_last_success set and the
\* previous count and success time copied into the session (a successful
\* login). A request refused because the attempts are exceeded, the user is
\* inactive with the correct password or the username is unknown leaves every
\* user record unchanged.
Thm_C11_failed_count ==
    [][/\ \A u \in DOMAIN users :
            \/ users'[u] = users[u]
            \/ FailureCounted(u)
            \/ CountReset(u)
       /\ DOMAIN users' = DOMAIN users
       /\ Refused(response') => users' = users
    ]_vars

\* Alice was refused with her attempts exceeded: the two failures counted
\* before stay as they are
Wit_C11_refused_exceeded ==
    /\ response.op = "login"
    /\ response.username = "Alice"
    /\ response.flash = "error login attempts exceeded"
    /\ users["Alice"].login_failed_count = failed_login_tries
    /\ users["Alice"].login_last_failure = Some(0)
    /\ now = 0
    /\ generated = 0


(***************************************************************************)
(* Claims about the password reset, checked under SpecReset.               *)
(***************************************************************************)
\* the password, reset code and reset date of every user
ResetFields ==
    [u \in DOMAIN users |-> <<users[u].password, users[u].password_reset_code,
                              users[u].password_reset_date>>]

\* the code is held by a user and was issued at most reset_confirm_hours ago
KnownAndUnexpired(code) ==
    \E u \in DOMAIN users :
        /\ users[u].password_reset_code = code
        /\ users[u].password_reset_date # Nothing
        /\ now - users[u].password_reset_date[1] <= reset_confirm_hours

\* C12: reset_confirm(code) with a code no user holds, or one issued more than
\* reset_confirm_hours ago, responds 404 and changes no user's password, reset
\* code or reset date; a password is changed by reset_confirm only for a known
\* and unexpired code, and then for the user who holds it.
Thm_C12_reset_confirm ==
    [][response'.op = "reset_confirm" =>
          /\ ~KnownAndUnexpired(response'.code) =>
                /\ response'.kind = "abort"
                /\ response'.target = "404"
                /\ ResetFields' = ResetFields
          /\ KnownAndUnexpired(response'.code) =>
                /\ response'.kind = "render"
                /\ \A u \in DOMAIN users :
                      (users'[u].password # users[u].password)
                          <=> (users[u].password_reset_code = response'.code)
    ]_vars

\* an hour and more after Alice asked for a code, the code was refused with 404
\* and she still holds it
Wit_C12_expired ==
    /\ response.op = "reset_confirm"
    /\ response.kind = "abort"
    /\ response.flash = "This reset confirmation code has expired."
    /\ users["Alice"].password_reset_code = response.code
    /\ users["Alice"].password_reset_date = Some(0)
    /\ users["Alice"].password = UserRow("Alice", "admin", TRUE).password
    /\ now = 2

\* the codes no user holds among the strings generate_password has returned
Spent ==
    {Generated[i] : i \in 1..generated} \
        {users[u].password_reset_code : u \in DOMAIN users}

\* C13: a reset code changes the password at most once. A successful
\* reset_confirm clears password_reset_code and password_reset_date, and a new
\* code issued by reset_password replaces the one the user held: either way
\* the old code is held by nobody any more. A code nobody holds stays so
\* whatever reset_password issues later, and reset_confirm with it responds
\* 404 and leaves every password unchanged.
Thm_C13_code_used_once ==
    [][/\ Spent \subseteq Spent'
       /\ (response'.op = "reset_confirm" /\ response'.kind = "render") =>
             /\ response'.code \in Spent'
             /\ \A u \in DOMAIN users :
                   users[u].password_reset_code = response'.code =>
                       /\ users'[u].password_reset_code = None
                       /\ users'[u].password_reset_date = Nothing
       /\ (response'.op = "reset_password" /\ response'.issued # None) =>
             \A u \in DOMAIN users :
                 (users[u].email = response'.email
                     /\ users[u].password_reset_code # None) =>
                         /\ users[u].password_reset_code \in Spent'
                         /\ users'[u].password_reset_code = response'.issued
       /\ (response'.op = "reset_confirm" /\ response'.code \in Spent) =>
             /\ response'.kind = "abort"
             /\ response'.target = "404"
             /\ \A u \in DOMAIN users : users'[u].password = users[u].password
    ]_vars

\* Alice's first code gave her a new password; the same code was then refused
\* with 404 although she has asked for another code since
Wit_C13_second_use_refused ==
    /\ response.op = "reset_confirm"
    /\ response.kind = "abort"
    /\ response.code = Generated[1]
    /\ users["Alice"].password = hashpw(Generated[2], gensalt)
    /\ users["Alice"].password_reset_code = Generated[3]


(***************************************************************************)
(* models/link.py: the link table.                                         *)
(*                                                                         *)
(* openatlas.classes and openatlas.properties are the CIDOC tables loaded  *)
(* from the database; the model holds the part of them the entities below  *)
(* use.                                                                    *)
(***************************************************************************)
\* openatlas.classes[code].sub, transitively: a class and its sub classes
class_with_subs(code) == IF code = "E39" THEN {"E39", "E21"} ELSE {code}

\* openatlas.properties: OA7 (actor to actor), P74 (actor to place)
PropertyCodes == {"OA7", "P74"}

properties(code) ==
    IF code = "OA7"
    THEN [code |-> "OA7", domain_class_code |-> "E39", range_class_code |-> "E39"]
    ELSE [code |-> "P74", domain_class_code |-> "E39", range_class_code |-> "E53"]

\* app.config['WHITELISTED_DOMAINS']
WHITELISTED_DOMAINS == {"E61"}

\* Property.find_object(attr, class_code): the class is the property's domain
\* (range) class or a sub class of it
find_object(property_, attr, class_code) ==
    class_code \in class_with_subs(property_[attr])

\* a falsy entity argument: None
NoEntity == 0

\* session['settings'] as a request finds them: absent, or with debug_mode off or on
SettingsValues ==
    {[present |-> FALSE, debug_mode |-> FALSE],
     [present |-> TRUE, debug_mode |-> FALSE],
     [present |-> TRUE, debug_mode |-> TRUE]}

\* the six date attributes of an entity, all None
NoDates ==
    [begin_from |-> Nothing, begin_to |-> Nothing, begin_comment |-> None,
     end_from |-> Nothing, end_to |-> Nothing, end_comment |-> None]

\* the model.entity row Entity.insert writes: no description, no dates, never
\* modified
EntityRow(class_code, system_type, name) ==
    [class_code |-> class_code, system_type |-> system_type, name |-> name,
     description |-> None, dates |-> NoDates, modified |-> Nothing]

\* an actor, a place and a time primitive
LinkEntities ==
    <<EntityRow("E21", None, "Connor MacLeod"),
      EntityRow("E53", None, "Glenfinnan"),
      EntityRow("E61", None, "1518")>>

\* the actors of tests/test_relation.py
RelationEntities ==
    <<EntityRow("E21", None, "Connor MacLeod"),
      EntityRow("E21", None, "The Kurgan")>>

Descriptions == {None, "There can be only one!"}

\* LinkMapper.insert whose check forgets the range class
link_error_mut(domain_id, property_code, range_id) ==
    LET domain_class == entities[domain_id].class_code
        property_ == properties(property_code)
        domain_error ==
            ~(\/ find_object(property_, "domain_class_code", domain_class)
              \/ domain_class \in WHITELISTED_DOMAINS)
    IN  domain_error

\* LinkMapper.insert, lines 52-64: domain_error or range_error
link_error(domain_id, property_code, range_id) ==
    LET domain_class == entities[domain_id].class_code
        range_class == entities[range_id].class_code
        property_ == properties(property_code)
        domain_error ==
            ~(\/ find_object(property_, "domain_class_code", domain_class)
              \/ domain_class \in WHITELISTED_DOMAINS)
        range_error == ~find_object(property_, "range_class_code", range_class)
    IN  domain_error \/ range_error

\* LinkMapper.insert, line 46: the check runs in debug mode only
debug_check(settings) == settings.present /\ settings.debug_mode

\* the text LinkMapper.insert flashes for a link it skips
error_link(domain_id, property_code, range_id) ==
    <<"error link", entities[domain_id].class_code, property_code,
      entities[range_id].class_code>>

\* LinkMapper.insert, the loop over range_: acc holds the rows, the serial,
\* the result and the flashed messages so far
RECURSIVE insert_loop(_, _, _, _, _, _)
insert_loop(domain, property_code, range_, description, settings, acc) ==
    IF range_ = <<>> THEN acc
    ELSE
        LET range_param == Head(range_)
            row == [id |-> acc.seq + 1,
                    property_code |-> property_code,
                    domain_id |-> domain,
                    range_id |-> range_param,
                    description |-> description]
        IN
        IF range_param = NoEntity
        THEN insert_loop(domain, property_code, Tail(range_), description, settings, acc)
        ELSE IF debug_check(settings) /\ link_error(domain, property_code, range_param)
        THEN insert_loop(domain, property_code, Tail(range_), description, settings,
                [acc EXCEPT !.flash =
                    Append(@, error_link(domain, property_code, range_param))])
        ELSE insert_loop(domain, property_code, Tail(range_), description, settings,
                [acc EXCEPT !.rows = @ \cup {row},
                            !.seq = @ + 1,
                            !.result = Some(acc.seq + 1)])

\* the entities of range_ that are not None
given(range_) == {i \in DOMAIN range_ : range_[i] # NoEntity}

\* LinkMapper.insert(domain, property_code, range_, description), in a request
\* whose session holds settings
insert(domain, property_code, range_, description, settings) ==
    LET info == [debug |-> debug_check(settings),
                 requested |-> IF domain = NoEntity THEN 0
                               ELSE Cardinality(given(range_))]
        done == insert_loop(domain, property_code, range_, description, settings,
                    [rows |-> links, seq |-> link_seq, result |-> Nothing,
                     flash |-> <<>>])
    IN
    IF domain = NoEntity \/ range_ = <<>>
    THEN /\ response' = Answer("insert", "return", Nothing, <<>>) @@ info
         /\ UNCHANGED <<links, link_seq>>
    ELSE /\ links' = done.rows
         /\ link_seq' = done.seq
         /\ response' = Answer("insert", "return", done.result, done.flash) @@ info

\* EntityMapper.get_by_ids: the entities with these ids
get_by_ids(ids) == {id \in DOMAIN entities : id \in ids}

\* get_linked_entities that reads the forward direction whatever inverse says
get_linked_entities_mut(entity, codes, inverse) ==
    get_by_ids({l.range_id : l \in {x \in links :
        x.domain_id = entity /\ x.property_code \in codes}})

\* LinkMapper.get_linked_entities: the ids of the entities it returns (the list
\* is ordered by name)
get_linked_entities(entity, codes, inverse) ==
    IF inverse
    THEN get_by_ids({l.domain_id : l \in {x \in links :
             x.range_id = entity /\ x.property_code \in codes}})
    ELSE get_by_ids({l.range_id : l \in {x \in links :
             x.domain_id = entity /\ x.property_code \in codes}})

\* LinkMapper.get_links: the rows it builds its Link objects from; the join
\* with model.entity is on the other end of the link
get_links(entity, codes, inverse) ==
    IF inverse
    THEN {l \in links : /\ l.range_id = entity
                        /\ l.domain_id \in DOMAIN entities
                        /\ l.property_code \in codes}
    ELSE {l \in links : /\ l.domain_id = entity
                        /\ l.range_id \in DOMAIN entities
                        /\ l.property_code \in codes}

\* Link.__init__: the Link object of a row
Link(row) ==
    [id |-> row.id,
     description |-> row.description,
     property |-> properties(row.property_code),
     domain |-> row.domain_id,
     range |-> row.range_id]

\* LinkMapper.get_by_id: the Link objects of the rows with that id (one or none)
get_by_id(id_) == {Link(l) : l \in {x \in links : x.id = id_}}

\* an UPDATE without its WHERE clause
update_rows_mut(link) ==
    {[id |-> l.id,
      property_code |-> link.property.code,
      domain_id |-> link.domain,
      range_id |-> link.range,
      description |-> link.description] : l \in links}

\* LinkMapper.update: the rows after its UPDATE ... WHERE id = link.id
update_rows(link) ==
    {IF l.id = link.id
     THEN [id |-> l.id,
           property_code |-> link.property.code,
           domain_id |-> link.domain,
           range_id |-> link.range,
           description |-> link.description]
     ELSE l : l \in links}

\* LinkMapper.update(link)
update(link) ==
    /\ links' = update_rows(link)
    /\ response' = Answer("update", "return", Nothing, <<>>) @@ [link |-> link]
    /\ UNCHANGED link_seq

\* LinkMapper.delete_by_id
delete_by_id(id_) ==
    /\ links' = {l \in links : l.id # id_}
    /\ response' = Answer("delete_by_id", "return", Nothing, <<>>)
    /\ UNCHANGED link_seq

\* LinkMapper.delete_by_codes
delete_by_codes(entity, codes) ==
    /\ links' = {l \in links : ~(l.domain_id = entity /\ l.property_code \in codes)}
    /\ response' = Answer("delete_by_codes", "return", Nothing, <<>>)
    /\ UNCHANGED link_seq

\* a read of the links of an entity in one direction, by both queries
read_links(entity, codes, inverse) ==
    /\ response' = Answer("read_links", "return", Nothing, <<>>)
            @@ [entity |-> entity, codes |-> codes, inverse |-> inverse,
                linked_entities |-> get_linked_entities(entity, codes, inverse),
                link_rows |-> get_links(entity, codes, inverse)]
    /\ UNCHANGED <<links, link_seq>>

(***************************************************************************)
(* SpecLink and SpecRelation: the entities exist and the link table is     *)
(* empty.                                                                  *)
(***************************************************************************)
NoAuth ==
    /\ users = [u \in Usernames |-> UserRow(u, "admin", TRUE)]
    /\ current_user = "Alice"
    /\ session = NoSession
    /\ now = 0
    /\ generated = 0

InitLink ==
    /\ NoAuth
    /\ entities = LinkEntities
    /\ links = {}
    /\ link_seq = 0
    /\ entity_seq = Len(LinkEntities)
    /\ gis = {}
    /\ user_log = {}
    /\ pending = {}
    /\ response = Answer("init", None, None, None)

InitRelation ==
    /\ NoAuth
    /\ entities = RelationEntities
    /\ links = {}
    /\ link_seq = 0
    /\ entity_seq = Len(RelationEntities)
    /\ gis = {}
    /\ user_log = {}
    /\ pending = {}
    /\ response = Answer("init", None, None, None)

EntityIds == DOMAIN entities

\* the lists of at most MaxRange entities (or None) a caller passes as range_
RangeLists ==
    UNION {[1..n -> EntityIds \cup {NoEntity}] : n \in 0..MaxRange}

\* a caller that links an entity by P74 (has current or former residence) to a
\* list of entities, as the actor views do with the places of their form
InsertLink ==
    /\ \E domain \in EntityIds \cup {NoEntity}, range_ \in RangeLists,
          settings \in SettingsValues :
           insert(domain, "P74", range_, None, settings)
    /\ link_seq' <= MaxStored
    /\ UNCHANGED <<authVars, entities, placeVars>>

\* a relation between two actors (tests/test_relation.py), one link per call
InsertRelation ==
    /\ \E domain \in EntityIds, property_code \in PropertyCodes, range_ \in EntityIds :
           insert(domain, property_code, <<range_>>, None,
                  [present |-> TRUE, debug_mode |-> FALSE])
    /\ link_seq' <= MaxLinks
    /\ UNCHANGED <<authVars, entities, placeVars>>

\* a Link read by get_by_id and changed by the caller, then LinkMapper.update
UpdateLink ==
    /\ \E id_ \in 1..link_seq, property_code \in PropertyCodes,
          domain \in EntityIds, range_ \in EntityIds, description \in Descriptions :
           \E old \in get_by_id(id_) :
               update([old EXCEPT !.property = properties(property_code),
                                  !.domain = domain,
                                  !.range = range_,
                                  !.description = description])
    /\ UNCHANGED <<authVars, entities, placeVars>>

DeleteLinkById ==
    /\ \E id_ \in 1..link_seq : delete_by_id(id_)
    /\ UNCHANGED <<authVars, entities, placeVars>>

DeleteLinksByCodes ==
    /\ \E entity \in EntityIds, code \in PropertyCodes :
           delete_by_codes(entity, {code})
    /\ UNCHANGED <<authVars, entities, placeVars>>

ReadLinks ==
    /\ \E entity \in EntityIds, code \in PropertyCodes, inverse \in BOOLEAN :
           read_links(entity, {code}, inverse)
    /\ UNCHANGED <<authVars, entities, placeVars>>

NextLink == InsertLink

SpecLink == InitLink /\ [][NextLink]_vars

NextRelation ==
    \/ InsertRelation
    \/ UpdateLink
    \/ DeleteLinkById
    \/ DeleteLinksByCodes
    \/ ReadLinks

SpecRelation == InitRelation /\ [][NextRelation]_vars

(***************************************************************************)
(* Claims about LinkMapper.insert, checked under SpecLink.                 *)
(***************************************************************************)

\* the classes the CIDOC tables allow at the domain (range) end of a property
AllowedDomainClasses(code) ==
    class_with_subs(properties(code).domain_class_code) \cup WHITELISTED_DOMAINS

AllowedRangeClasses(code) == class_with_subs(properties(code).range_class_code)

ValidClasses(domain_class, code, range_class) ==
    /\ domain_class \in AllowedDomainClasses(code)
    /\ range_class \in AllowedRangeClasses(code)

ValidLink(row) ==
    ValidClasses(entities[row.domain_id].class_code, row.property_code,
                 entities[row.range_id].class_code)

\* every message flashed names a combination of classes the tables exclude
FlashesNameInvalidLinks(flash) ==
    \A i \in DOMAIN flash :
        /\ flash[i][1] = "error link"
        /\ ~ValidClasses(flash[i][2], flash[i][3], flash[i][4])

\* C4 as stated: whatever the settings, LinkMapper.insert stores no link whose
\* domain class is neither allowed for the property nor whitelisted or whose
\* range class is not allowed for the property; each such link is skipped
\* with an error message.
Orig_C4_insert_validated ==
    [][response'.op = "insert" =>
        /\ \A row \in links' \ links : ValidLink(row)
        /\ FlashesNameInvalidLinks(response'.flash)
        /\ Len(response'.flash) + Cardinality(links' \ links) = response'.requested
    ]_vars

\* C4 as amended: the check is made only when the session holds settings with
\* debug_mode on; then no invalid link is stored and each one is skipped with
\* an error message while the valid ones of the same call are stored. In any
\* other configuration every link given is stored and nothing is flashed.
Thm_C4_insert_validated_in_debug_mode ==
    [][response'.op = "insert" =>
        /\ response'.debug =>
              /\ \A row \in links' \ links : ValidLink(row)
              /\ FlashesNameInvalidLinks(response'.flash)
              /\ Len(response'.flash) + Cardinality(links' \ links)
                    = response'.requested
        /\ ~response'.debug =>
              /\ response'.flash = <<>>
              /\ Cardinality(links' \ links) = response'.requested
        /\ links \subseteq links'
    ]_vars

\* in debug mode a call with two entities stored one link and skipped the other
Wit_C4_one_skipped ==
    /\ response.op = "insert"
    /\ response.debug
    /\ response.requested = 2
    /\ Len(response.flash) = 1
    /\ Cardinality(links) = 1
    /\ \A row \in links : ValidLink(row)

(***************************************************************************)
(* Claims about the relations between actors, checked under SpecRelation.  *)
(***************************************************************************)

\* the rows of model.link from A (to B) with property code c
RowsFrom(A, c) == {l \in links : l.domain_id = A /\ l.property_code = c}

RowsTo(B, c) == {l \in links : l.range_id = B /\ l.property_code = c}

\* C5: for every set of stored links, code c and entities A and B, B is
\* returned by get_linked_entities(A, c) exactly when A is returned by
\* get_linked_entities(B, c, inverse=True); the forward query returns the range
\* entities of the rows with domain_id = A and code c, the inverse query the
\* domain entities of the rows with range_id = B and code c, and get_links
\* selects the same rows in the same two directions.
Thm_C5_two_directions ==
    \A A \in EntityIds, B \in EntityIds, c \in PropertyCodes :
        /\ B \in get_linked_entities(A, {c}, FALSE)
              <=> A \in get_linked_entities(B, {c}, TRUE)
        /\ get_linked_entities(A, {c}, FALSE) = {l.range_id : l \in RowsFrom(A, c)}
        /\ get_linked_entities(B, {c}, TRUE) = {l.domain_id : l \in RowsTo(B, c)}
        /\ get_links(A, {c}, FALSE) = RowsFrom(A, c)
        /\ get_links(B, {c}, TRUE) = RowsTo(B, c)

\* the inverse read of The Kurgan returned Connor MacLeod, whose forward read
\* returns The Kurgan, and nobody reads The Kurgan forward
Wit_C5_inverse_read ==
    /\ response.op = "read_links"
    /\ response.inverse
    /\ response.entity = 2
    /\ response.linked_entities = {1}
    /\ {l.id : l \in response.link_rows} # {}
    /\ get_linked_entities(2, response.codes, FALSE) = {}
    /\ 2 \in get_linked_entities(1, response.codes, FALSE)

\* C8: LinkMapper.update(link) rewrites property_code, domain_id, range_id and
\* description of exactly the row whose id is link.id; the ids and the number
\* of links stay, every other row is unchanged, and a following
\* get_by_id(link.id) returns the new description.
Thm_C8_update_frame ==
    [][response'.op = "update" =>
        \E link \in {response'.link} :
            /\ Cardinality(links') = Cardinality(links)
            /\ {l.id : l \in links'} = {l.id : l \in links}
            /\ \A l \in links : l.id # link.id => l \in links'
            /\ \A l \in links' :
                  l.id = link.id =>
                      /\ l.property_code = link.property.code
                      /\ l.domain_id = link.domain
                      /\ l.range_id = link.range
                      /\ l.description = link.description
            /\ (/\ get_by_id(link.id) # {}
                /\ \A found \in get_by_id(link.id) :
                      found.description = link.description)'
    ]_vars

\* of two relations one was given a description and the other kept none
Wit_C8_description_changed ==
    /\ response.op = "update"
    /\ Cardinality(links) = 2
    /\ response.link.description = "There can be only one!"
    /\ \E l \in links : l.id # response.link.id /\ l.description = None
    /\ \E found \in get_by_id(response.link.id) :
           found.description = "There can be only one!"

(***************************************************************************)
(* models/entity.py: the dates of an entity and Entity.update.             *)
(*                                                                         *)
(* A form is a record of its fields' data; hasattr(form, f) is f being a   *)
(* field of the record. An optional integer field holds Nothing or         *)
(* Some(n), a date is <<year, month, day>>.                                *)
(***************************************************************************)
hasattr(form, field) == field \in DOMAIN form

\* bool() of the data of an optional integer field: None and 0 are falsy
truthy(x) == x # Nothing /\ x[1] # 0

is_leap_year(year) == year % 4 = 0 /\ (year % 100 # 0 \/ year % 400 = 0)

get_last_day_of_month(year, month) ==
    IF month = 2 THEN (IF is_leap_year(year) THEN 29 ELSE 28)
    ELSE IF month \in {4, 6, 9, 11} THEN 30 ELSE 31

\* Date.form_to_datetime64 (models/date.py): None without a year or for a day
\* the month does not have; a missing month or day is the first one of the
\* year or month, or the last one for a to_date
form_to_datetime64(year, month, day, to_date) ==
    IF ~truthy(year) THEN Nothing
    ELSE
        LET y == IF year[1] > 0 THEN year[1] ELSE year[1] + 1
            m == IF truthy(month) THEN month[1] ELSE IF to_date THEN 12 ELSE 1
            d == IF truthy(day) THEN day[1]
                 ELSE IF to_date THEN get_last_day_of_month(y, m) ELSE 1
        IN  IF m \in 1..12 /\ d \in 1..get_last_day_of_month(y, m)
            THEN Some(<<y, m, d>>)
            ELSE Nothing

\* set_dates without the six assignments of None at its start
set_dates_mut(dates, form) ==
    IF ~hasattr(form, "begin_year_from") THEN dates
    ELSE
        [begin_from |->
            IF truthy(form.begin_year_from)
            THEN form_to_datetime64(form.begin_year_from, form.begin_month_from,
                                    form.begin_day_from, FALSE)
            ELSE dates.begin_from,
         begin_to |->
            IF truthy(form.begin_year_from)
            THEN form_to_datetime64(form.begin_year_to, form.begin_month_to,
                                    form.begin_day_to, TRUE)
            ELSE dates.begin_to,
         begin_comment |->
            IF truthy(form.begin_year_from) THEN form.begin_comment
            ELSE dates.begin_comment,
         end_from |->
            IF truthy(form.end_year_from)
            THEN form_to_datetime64(form.end_year_from, form.end_month_from,
                                    form.end_day_from, FALSE)
            ELSE dates.end_from,
         end_to |->
            IF truthy(form.end_year_from)
            THEN form_to_datetime64(form.end_year_to, form.end_month_to,
                                    form.end_day_to, TRUE)
            ELSE dates.end_to,
         end_comment |->
            IF truthy(form.end_year_from) THEN form.end_comment
            ELSE dates.end_comment]

\* Entity.set_dates(form): the six date attributes of the entity after the
\* call, dates being the ones before it
set_dates(dates, form) ==
    IF ~hasattr(form, "begin_year_from") THEN dates
    ELSE
        [begin_from |->
            IF truthy(form.begin_year_from)
            THEN form_to_datetime64(form.begin_year_from, form.begin_month_from,
                                    form.begin_day_from, FALSE)
            ELSE Nothing,
         begin_to |->
            IF truthy(form.begin_year_from)
            THEN form_to_datetime64(form.begin_year_to, form.begin_month_to,
                                    form.begin_day_to, TRUE)
            ELSE Nothing,
         begin_comment |->
            IF truthy(form.begin_year_from) THEN form.begin_comment ELSE None,
         end_from |->
            IF truthy(form.end_year_from)
            THEN form_to_datetime64(form.end_year_from, form.end_month_from,
                                    form.end_day_from, FALSE)
            ELSE Nothing,
         end_to |->
            IF truthy(form.end_year_from)
            THEN form_to_datetime64(form.end_year_to, form.end_month_to,
                                    form.end_day_to, TRUE)
            ELSE Nothing,
         end_comment |->
            IF truthy(form.end_year_from) THEN form.end_comment ELSE None]

\* the comment Entity.update writes: stripped, and None for an empty one
written_comment(comment) == IF comment = None \/ comment = "" THEN None ELSE comment

\* self.class_ == 'object_location', the system class of the row standing for
\* the internal class
is_object_location(row) == row.system_type = "object_location"

\* openatlas.app.config['EVENT_ROOT_NAME']
EVENT_ROOT_NAME == "History of the World"

\* str.strip() on the strings of the model: one of them ends with a blank
strip(s) == IF s = EVENT_ROOT_NAME \o " " THEN EVENT_ROOT_NAME ELSE s

\* Entity.update(form): the row its UPDATE writes for an entity loaded from
\* row. The comments of the model carry no blanks to strip and no markup to
\* sanitize; no form of the model has a name_inverse field. The column
\* modified is set by the database.
updated_row(row, form) ==
    LET dates == set_dates(row.dates, form)
        name == IF hasattr(form, "name") THEN form.name ELSE row.name
        description ==
            IF hasattr(form, "description") THEN form.description ELSE row.description
    IN  [row EXCEPT
            !.name = strip(IF is_object_location(row) THEN "Location of " \o name
                           ELSE name),
            !.description = IF is_object_location(row) THEN None ELSE description,
            !.dates = [dates EXCEPT !.begin_comment = written_comment(@),
                                    !.end_comment = written_comment(@)],
            !.modified = Some(now)]

\* Entity.update(form) of a form without alias field, outside a transaction
entity_update(id_, form) ==
    /\ entities' = [entities EXCEPT ![id_] = updated_row(@, form)]
    /\ response' = Answer("entity_update", "return", Nothing, <<>>)
            @@ [id |-> id_, form |-> form,
                before |-> entities[id_].dates,
                dates |-> set_dates(entities[id_].dates, form)]

(***************************************************************************)
(* SpecDates: an event whose dates are saved from date forms.              *)
(***************************************************************************)
\* the begin fields of a DateForm as posted: year 0 is not a year, the 30th of
\* February is not a day
BeginFields ==
    {[begin_year_from |-> year,
      begin_month_from |-> month_day[1],
      begin_day_from |-> month_day[2],
      begin_year_to |-> year_to,
      begin_month_to |-> Nothing,
      begin_day_to |-> Nothing,
      begin_comment |-> comment] :
        year \in {Nothing, Some(0), Some(1518)},
        month_day \in {<<Nothing, Nothing>>, <<Some(2), Some(30)>>},
        year_to \in {Nothing, Some(1519)},
        comment \in {None, "", "circa"}}

EndFields ==
    {[end_year_from |-> year,
      end_month_from |-> Nothing,
      end_day_from |-> Nothing,
      end_year_to |-> to_comment[1],
      end_month_to |-> Nothing,
      end_day_to |-> Nothing,
      end_comment |-> to_comment[2]] :
        year \in {Nothing, Some(1536)},
        to_comment \in {<<Nothing, None>>, <<Some(1537), "before">>}}

DateForms == {b @@ e : b \in BeginFields, e \in EndFields}

\* forms with a name: with the date fields, or (an import, a node) without
UpdateForms ==
    {[name |-> "Battle of Glenfinnan"] @@ d : d \in DateForms}
        \cup {[name |-> "Battle of Glenfinnan"]}

DatesEntities == <<EntityRow("E7", None, "Battle")>>

InitDates ==
    /\ NoAuth
    /\ entities = DatesEntities
    /\ links = {}
    /\ link_seq = 0
    /\ entity_seq = Len(DatesEntities)
    /\ gis = {}
    /\ user_log = {}
    /\ pending = {}
    /\ response = Answer("init", None, None, None)

UpdateEntity ==
    /\ \E id_ \in DOMAIN entities, form \in UpdateForms : entity_update(id_, form)
    /\ UNCHANGED <<authVars, links, link_seq, placeVars>>

NextDates == UpdateEntity

SpecDates == InitDates /\ [][NextDates]_vars

(***************************************************************************)
(* Claims about the dates, checked under SpecDates.                        *)
(***************************************************************************)

\* C7: after Entity.set_dates(form) on a form that has date fields,
\* begin_from, begin_to and begin_comment are all None unless begin_year_from
\* is set, whatever begin_year_to and begin_comment contain, and likewise for
\* the end fields with end_year_from; what the attributes held before the call
\* never survives it: with the year set they are what the form gives. If the
\* form has no begin_year_from field, all six attributes are left unchanged.
Thm_C7_set_dates ==
    [][response'.op = "entity_update" =>
        LET form == response'.form
            before == entities[response'.id].dates
            after == response'.dates
        IN
        /\ before = response'.before
        /\ ~hasattr(form, "begin_year_from") => after = before
        /\ hasattr(form, "begin_year_from") =>
              /\ ~truthy(form.begin_year_from) =>
                    /\ after.begin_from = Nothing
                    /\ after.begin_to = Nothing
                    /\ after.begin_comment = None
              /\ truthy(form.begin_year_from) =>
                    /\ after.begin_from =
                          form_to_datetime64(form.begin_year_from,
                              form.begin_month_from, form.begin_day_from, FALSE)
                    /\ after.begin_to =
                          form_to_datetime64(form.begin_year_to,
                              form.begin_month_to, form.begin_day_to, TRUE)
                    /\ after.begin_comment = form.begin_comment
              /\ ~truthy(form.end_year_from) =>
                    /\ after.end_from = Nothing
                    /\ after.end_to = Nothing
                    /\ after.end_comment = None
              /\ truthy(form.end_year_from) =>
                    /\ after.end_from =
                          form_to_datetime64(form.end_year_from,
                              form.end_month_from, form.end_day_from, FALSE)
                    /\ after.end_to =
                          form_to_datetime64(form.end_year_to,
                              form.end_month_to, form.end_day_to, TRUE)
                    /\ after.end_comment = form.end_comment
    ]_vars

\* an event with a begin and an end was saved from a form without years that
\* still had a second begin year and a begin comment: the six attributes are None
Wit_C7_dates_removed ==
    /\ response.op = "entity_update"
    /\ response.before.begin_from = Some(<<1518, 1, 1>>)
    /\ response.before.end_to = Some(<<1537, 12, 31>>)
    /\ response.before.begin_comment = "circa"
    /\ hasattr(response.form, "begin_year_from")
    /\ response.form.begin_year_from = Some(0)
    /\ response.form.begin_year_to = Some(1519)
    /\ response.form.begin_comment = "circa"
    /\ response.dates = NoDates
    /\ entities[response.id].dates = NoDates

(***************************************************************************)
(* views/place.py: save(), inside its transaction.                         *)
(*                                                                         *)
(* A transaction in progress is a record: db, the tables as its statements *)
(* left them; statements, the statements executed; exc, the exception      *)
(* raised, if any; writes, the writes attempted. Any write may raise: the  *)
(* fail_at-th write of a request does (none for fail_at = 0).              *)
(***************************************************************************)
\* the tables and serials a transaction works on
Db ==
    [entities |-> entities, links |-> links, gis |-> gis,
     entity_seq |-> entity_seq, link_seq |-> link_seq]

\* g.cursor.execute('BEGIN')
Begin == [db |-> Db, statements |-> <<"BEGIN">>, exc |-> None, writes |-> 0]

Write(w, fail_at, statement, newdb) ==
    IF w.exc # None THEN w
    ELSE IF w.writes + 1 = fail_at
    THEN [w EXCEPT !.writes = @ + 1, !.exc = "Exception"]
    ELSE [w EXCEPT !.writes = @ + 1, !.db = newdb,
                   !.statements = Append(@, statement)]

\* a ROLLBACK that undoes nothing
Rollback_mut(before, work) == work

\* g.cursor.execute('ROLLBACK'): the tables are as before BEGIN; the serials
\* keep the ids they gave out
Rollback(before, work) ==
    [before EXCEPT !.entity_seq = work.entity_seq, !.link_seq = work.link_seq]

\* Entity.insert: INSERT INTO model.entity ... RETURNING id
entity_insert(db, code, name, system_type) ==
    [db EXCEPT !.entity_seq = @ + 1,
               !.entities = @ @@ ((db.entity_seq + 1) :>
                                     EntityRow(code, system_type, strip(name)))]

\* Entity.link(code, range_): one row of model.link
entity_link(db, domain, code, range_) ==
    [db EXCEPT !.link_seq = @ + 1,
               !.links = @ \cup {[id |-> db.link_seq + 1, property_code |-> code,
                                  domain_id |-> domain, range_id |-> range_,
                                  description |-> None]}]

\* Entity.delete_ without its test of the user's group
delete_unguarded(w, ids) ==
    IF w.exc # None THEN w ELSE [w EXCEPT !.exc = "ProgrammingError"]

\* Entity.delete_(ids) in a transaction: abort(403) unless the user is
\* authorized as contributor, then the statement
\* 'DELETE FROM model.entity WHERE IN %(ids)s', which names no column and is
\* rejected by the database whatever ids holds
delete_(w, ids) ==
    IF w.exc # None THEN w
    ELSE IF ~is_authorized("contributor") THEN [w EXCEPT !.exc = "Forbidden"]
    ELSE [w EXCEPT !.exc = "ProgrammingError"]

\* Entity.update_aliases(form): the entities of the model have no aliases and
\* the forms bring none, so delete_ids is empty; the aliases it would insert
\* come after delete_
update_aliases(w, form) ==
    IF ~hasattr(form, "alias") THEN w ELSE delete_(w, {})

\* the value of gis_polygons Gis.insert raises InvalidGeomException for
InvalidPolygon == "invalid polygon"

\* Gis.delete_by_entity(location)
gis_deleted(db, location) == [db EXCEPT !.gis = {x \in @ : x.entity_id # location}]

\* the shapes a form brings
shapes(form) == {form.gis_points, form.gis_polygons} \ {"[]"}

\* Gis.insert(location, form) in a transaction
gis_insert(w, fail_at, location, form) ==
    IF w.exc # None THEN w
    ELSE IF form.gis_polygons = InvalidPolygon
    THEN [w EXCEPT !.exc = "InvalidGeomException"]
    ELSE IF shapes(form) = {} THEN w
    ELSE Write(w, fail_at, "INSERT gis",
               [w.db EXCEPT !.gis =
                    @ \cup {[entity_id |-> location, shape |-> x] : x \in shapes(form)}])

\* current_user.settings['module_geonames']
module_geonames == TRUE

\* Entity.view_name, by the class of the row
view_name(row) ==
    CASE row.class_code = "E31" -> "reference"
      [] row.class_code \in {"E18", "E20", "E22", "E53"} -> "place"
      [] OTHER -> "entity"

PlaceOrigins == {"place", "feature", "stratigraphic unit"}

origin_type(origin) == IF origin = NoEntity THEN None ELSE entities[origin].system_type

\* save(), lines 314-325: class code and system type of the object it inserts
new_class_code(origin, system_type) ==
    IF system_type = "human_remains" THEN "E20"
    ELSE IF origin_type(origin) = "stratigraphic unit" THEN "E22"
    ELSE "E18"

new_system_type(origin, system_type) ==
    IF system_type = "human_remains" THEN "human remains"
    ELSE IF origin_type(origin) = "stratigraphic unit" THEN "find"
    ELSE IF origin_type(origin) = "place" THEN "feature"
    ELSE IF origin_type(origin) = "feature" THEN "stratigraphic unit"
    ELSE "place"

\* the local variable system_type of save() after the insert
system_type_after(origin, system_type) ==
    IF system_type = "human_remains" \/ origin_type(origin) = "stratigraphic unit"
    THEN system_type
    ELSE new_system_type(origin, system_type)

\* url_for(endpoint, ...)
url_for(endpoint, args) == [endpoint |-> endpoint] @@ args

\* the link save() makes from an origin to the object
origin_code(origin) ==
    IF view_name(entities[origin]) = "reference" THEN "P67"
    ELSE IF origin_type(origin) \in PlaceOrigins THEN "P46"
    ELSE "P67"

\* save(), lines 309-343: the calls between BEGIN and COMMIT in the order they
\* are made; Entity.update is save_nodes, update_aliases and its UPDATE
save_steps(form, is_update, origin) ==
    (IF is_update THEN <<"Gis.delete_by_entity">>
     ELSE <<"Entity.insert object", "Entity.insert location", "object_.link">>)
    \o <<"object_.save_nodes", "object_.update_aliases", "object_.update",
         "location.save_nodes", "location.update_aliases", "location.update">>
    \o (IF hasattr(form, "geonames_id") /\ module_geonames
        THEN <<"Geonames.update_geonames">> ELSE <<>>)
    \o (IF origin # NoEntity THEN <<"origin.link">> ELSE <<>>)
    \o <<"Gis.insert">>

\* one call of save() in the transaction w; c holds the arguments of save()
\* and the ids of object_ and location
step(w, name, c) ==
    CASE name = "Gis.delete_by_entity" ->
            Write(w, c.fail_at, "DELETE gis", gis_deleted(w.db, c.location))
      [] name = "Entity.insert object" ->
            Write(w, c.fail_at, "INSERT model.entity",
                  entity_insert(w.db, new_class_code(c.origin, c.system_type),
                                c.form.name, new_system_type(c.origin, c.system_type)))
      [] name = "Entity.insert location" ->
            Write(w, c.fail_at, "INSERT model.entity",
                  entity_insert(w.db, "E53", "Location of " \o c.form.name,
                                "place location"))
      [] name = "object_.link" ->
            Write(w, c.fail_at, "INSERT model.link",
                  entity_link(w.db, c.object_, "P53", c.location))
      [] name \in {"object_.save_nodes", "location.save_nodes"} ->
            Write(w, c.fail_at, "save_nodes", w.db)
      [] name \in {"object_.update_aliases", "location.update_aliases"} ->
            update_aliases(w, c.form)
      [] name = "object_.update" ->
            Write(w, c.fail_at, "UPDATE model.entity",
                  [w.db EXCEPT !.entities[c.object_] = updated_row(@, c.form)])
      [] name = "location.update" ->
            Write(w, c.fail_at, "UPDATE model.entity",
                  [w.db EXCEPT !.entities[c.location] = updated_row(@, c.form)])
      [] name = "Geonames.update_geonames" ->
            Write(w, c.fail_at, "update_geonames", w.db)
      [] name = "origin.link" ->
            Write(w, c.fail_at, "INSERT model.link",
                  entity_link(w.db, c.origin, origin_code(c.origin), c.object_))
      [] name = "Gis.insert" ->
            gis_insert(w, c.fail_at, c.location, c.form)

\* the calls of save() one after the other
RECURSIVE run(_, _, _)
run(w, steps, c) ==
    IF steps = <<>> THEN w
    ELSE CHOOSE after \in
            {run(next, Tail(steps), c) : next \in {step(w, Head(steps), c)}} : TRUE

\* save(), lines 337-343: the url after the writes
url_saved(done, c) ==
    IF c.origin = NoEntity THEN url_for("entity_view", [id_ |-> c.object_])
    ELSE IF view_name(entities[c.origin]) = "reference"
    THEN url_for("reference_link_update",
                 [link_id |-> done.db.link_seq, origin_id |-> c.origin])
    ELSE IF origin_type(c.origin) \in PlaceOrigins
    THEN url_for("entity_view", [id_ |-> c.object_])
    ELSE url_for("entity_view", [id_ |-> c.origin, anchor |-> "#tab-place"])

\* save(), lines 344-360: COMMIT, the url of an insert and continue, the user
\* log and the flash; or ROLLBACK and the url of the index. done is the
\* transaction after the writes; the write of the user log may raise too
save_result(done, c) ==
    LET committed == done.exc = None
        log_raises == committed /\ c.fail_at = done.writes + 1
    IN  [db |-> IF committed THEN done.db ELSE Rollback(Db, done.db),
         statements |->
            IF ~committed THEN Append(done.statements, "ROLLBACK")
            ELSE IF log_raises THEN done.statements \o <<"COMMIT", "ROLLBACK">>
            ELSE Append(done.statements, "COMMIT"),
         committed |-> committed,
         exc |-> IF log_raises THEN "Exception" ELSE done.exc,
         logged |-> IF committed /\ ~log_raises
                    THEN {[entity_id |-> c.object_, action |-> c.log_action]}
                    ELSE {},
         url |-> IF ~committed \/ log_raises THEN [endpoint |-> "place_index"]
                 ELSE IF c.form.continue_ = "yes"
                 THEN url_for("place_insert",
                              [origin_id |-> c.origin,
                               system_type |-> c.system_type_after])
                 ELSE url_saved(done, c),
         flash |-> IF done.exc = "InvalidGeomException" THEN "Invalid geom entered"
                   ELSE IF ~committed \/ log_raises THEN "error transaction"
                   ELSE IF c.log_action = "update" THEN "info update"
                   ELSE "entity created"]

\* save(form, object__, location_, origin, system_type): the tables it leaves,
\* the url it returns, what it flashes and whether it wrote the user log
save(form, object__, location_, origin, system_type, fail_at) ==
    LET is_update == object__ # NoEntity /\ location_ # NoEntity
        c == [form |-> form, origin |-> origin, system_type |-> system_type,
              fail_at |-> fail_at,
              log_action |-> IF is_update THEN "update" ELSE "insert",
              object_ |-> IF is_update THEN object__ ELSE entity_seq + 1,
              location |-> IF is_update THEN location_ ELSE entity_seq + 2,
              system_type_after |->
                  IF is_update THEN system_type
                  ELSE system_type_after(origin, system_type)]
    IN  CHOOSE result \in
            {save_result(done, c) :
                done \in {run(Begin, save_steps(form, is_update, origin), c)}} : TRUE

\* the tables after a request that called save()
saved(result) ==
    /\ entities' = result.db.entities
    /\ links' = result.db.links
    /\ gis' = result.db.gis
    /\ entity_seq' = result.db.entity_seq
    /\ link_seq' = result.db.link_seq
    /\ user_log' = user_log \cup result.logged

\* the fields of a DateForm, none filled in
EmptyDateFields ==
    [begin_year_from |-> Nothing, begin_month_from |-> Nothing,
     begin_day_from |-> Nothing, begin_year_to |-> Nothing,
     begin_month_to |-> Nothing, begin_day_to |-> Nothing, begin_comment |-> "",
     end_year_from |-> Nothing, end_month_from |-> Nothing,
     end_day_from |-> Nothing, end_year_to |-> Nothing,
     end_month_to |-> Nothing, end_day_to |-> Nothing, end_comment |-> ""]

\* class FeatureForm(DateForm), with the data posted
FeatureForm(data) ==
    [name |-> data.name, description |-> data.description,
     gis_points |-> data.gis[1], gis_polygons |-> data.gis[2],
     continue_ |-> data.continue_, opened |-> data.opened] @@ data.dates

\* class PlaceForm(DateForm): a FeatureForm with alias and geonames fields
PlaceForm(data) ==
    [alias |-> <<>>, geonames_id |-> Nothing, geonames_precision |-> FALSE]
        @@ FeatureForm(data)

\* the response of a request that did not call save()
NotSaved == [saved |-> FALSE, fail_at |-> 0]

\* views/place.py: place_insert(origin_id, system_type), behind
\* required_group('contributor'); submitted is form.validate_on_submit()
place_insert(origin, system_type, submitted, data, fail_at) ==
    LET outcome == required_group("contributor")
        form == IF origin_type(origin) \in PlaceOrigins
                THEN FeatureForm(data) ELSE PlaceForm(data)
        request == [origin |-> origin, system_type |-> system_type]
    IN
    IF outcome # "run"
    THEN /\ response' = Answer("place_insert", IF outcome = "abort_403" THEN "abort"
                                               ELSE "redirect",
                               IF outcome = "abort_403" THEN "403" ELSE "/login", None)
                        @@ request @@ NotSaved
         /\ UNCHANGED <<entities, links, link_seq, placeVars>>
    ELSE IF ~submitted
    THEN /\ response' = Answer("place_insert", "render", "place/insert.html", None)
                        @@ request @@ NotSaved
         /\ UNCHANGED <<entities, links, link_seq, placeVars>>
    ELSE \E result \in {save(form, NoEntity, NoEntity, origin, system_type, fail_at)} :
         /\ fail_at # 0 => result.exc = "Exception"
         /\ saved(result)
         /\ UNCHANGED pending
         /\ response' = Answer("place_insert", "redirect", result.url, result.flash)
                        @@ request
                        @@ [saved |-> TRUE, fail_at |-> fail_at, form |-> form,
                            committed |-> result.committed, exc |-> result.exc,
                            statements |-> result.statements]

\* a place_update that never finds the entity modified
was_modified_mut(form, entity) == FALSE

\* util.was_modified(form, entity)
was_modified(form, entity) ==
    IF entity.modified = Nothing \/ form.opened = Nothing THEN FALSE
    ELSE IF entity.modified[1] < form.opened[1] THEN FALSE
    ELSE TRUE

\* Entity.get_linked_entity_safe('P53'): the locations of an object
locations(id_) ==
    {l.range_id : l \in {x \in links : x.domain_id = id_ /\ x.property_code = "P53"}}

\* views/place.py: place_update(id_), behind required_group('contributor')
place_update(id_, submitted, data, fail_at) ==
    LET outcome == required_group("contributor")
        object_ == entities[id_]
        location == CHOOSE l \in locations(id_) : TRUE
        form == IF object_.system_type \in
                      {"feature", "stratigraphic unit", "find", "human remains"}
                THEN FeatureForm(data) ELSE PlaceForm(data)
        request == [id_ |-> id_, submitted |-> submitted, opened |-> data.opened]
    IN
    IF outcome # "run"
    THEN /\ response' = Answer("place_update", IF outcome = "abort_403" THEN "abort"
                                               ELSE "redirect",
                               IF outcome = "abort_403" THEN "403" ELSE "/login", None)
                        @@ request @@ NotSaved
         /\ UNCHANGED <<entities, links, link_seq, placeVars>>
    ELSE IF ~submitted
    THEN /\ response' = Answer("place_update", "render", "place/update.html", None)
                        @@ request @@ NotSaved
         /\ UNCHANGED <<entities, links, link_seq, placeVars>>
    ELSE IF was_modified(form, object_)
    THEN /\ response' = Answer("place_update", "render", "place/update.html",
                               "error modified")
                        @@ request @@ NotSaved
         /\ UNCHANGED <<entities, links, link_seq, placeVars>>
    ELSE \E result \in {save(form, id_, location, NoEntity, None, fail_at)} :
         /\ fail_at # 0 => result.exc = "Exception"
         /\ saved(result)
         /\ UNCHANGED pending
         /\ response' = Answer("place_update", "redirect",
                               url_for("entity_view", [id_ |-> id_]), result.flash)
                        @@ request
                        @@ [saved |-> TRUE, fail_at |-> fail_at, form |-> form,
                            committed |-> result.committed, exc |-> result.exc,
                            statements |-> result.statements]

\* an entity without subunits, whatever links it has
subunits_mut(id_) == {}

\* place_index, line 61: entity.get_linked_entities(['P46'])
subunits(id_) == get_linked_entities(id_, {"P46"}, FALSE)

\* place_index, line 60: the super unit of an entity that is not a place
parent(id_) ==
    IF entities[id_].system_type = "place" THEN {}
    ELSE get_linked_entities(id_, {"P46"}, TRUE)

\* the tables after the DELETE of Entity.delete_: the row is gone and with it
\* the links from and to it
deleted(db, id_) ==
    [db EXCEPT !.entities = [i \in DOMAIN @ \ {id_} |-> @[i]],
               !.links = {l \in @ : l.domain_id # id_ /\ l.range_id # id_}]

\* views/place.py: place_index(action, id_), behind required_group('readonly');
\* Entity.delete_ runs outside a transaction, what it raises ends the request
place_index(action, id_) ==
    LET outcome == required_group("readonly")
        request == [action |-> action, id_ |-> id_]
        w == delete_(Begin, {id_})
    IN
    IF outcome # "run"
    THEN /\ response' = Answer("place_index", IF outcome = "abort_403" THEN "abort"
                                              ELSE "redirect",
                               IF outcome = "abort_403" THEN "403" ELSE "/login", None)
                        @@ request
         /\ UNCHANGED <<entities, links, link_seq, placeVars>>
    ELSE IF ~(id_ # NoEntity /\ action = "delete")
    THEN /\ response' = Answer("place_index", "render", "place/index.html", None)
                        @@ request
         /\ UNCHANGED <<entities, links, link_seq, placeVars>>
    ELSE IF subunits(id_) # {}
    THEN /\ response' = Answer("place_index", "redirect",
                               url_for("entity_view", [id_ |-> id_]),
                               "Deletion not possible if subunits exists")
                        @@ request
         /\ UNCHANGED <<entities, links, link_seq, placeVars>>
    ELSE IF w.exc # None
    THEN /\ response' = Answer("place_index", "abort",
                               IF w.exc = "Forbidden" THEN "403" ELSE "500", None)
                        @@ request
         /\ UNCHANGED <<entities, links, link_seq, placeVars>>
    ELSE /\ entities' = deleted(Db, id_).entities
         /\ links' = deleted(Db, id_).links
         /\ user_log' = user_log \cup {[entity_id |-> id_, action |-> "delete"]}
         /\ response' = Answer("place_index",
                               IF parent(id_) # {} THEN "redirect" ELSE "render",
                               IF parent(id_) # {}
                               THEN url_for("entity_view",
                                            [id_ |-> CHOOSE x \in parent(id_) : TRUE,
                                             anchor |-> "#tab-" \o entities[id_].system_type])
                               ELSE "place/index.html",
                               "entity deleted")
                        @@ request
         /\ UNCHANGED <<link_seq, entity_seq, gis, pending>>

(***************************************************************************)
(* SpecPlace: the place Troy with its location; a contributor or a         *)
(* readonly user is logged in.                                             *)
(***************************************************************************)
MaxEntities == 4        \* ids the serial of model.entity gives out

PlaceEntities ==
    <<[EntityRow("E18", "place", "Troy") EXCEPT
            !.dates.begin_from = Some(<<1518, 1, 1>>)],
      EntityRow("E53", "place location", "Location of Troy")>>

InitPlace ==
    /\ \E group \in {"contributor", "readonly"} :
         users = [u \in Usernames |->
                    IF u = "Alice" THEN UserRow(u, group, TRUE)
                    ELSE UserRow(u, "editor", TRUE)]
    /\ current_user = "Alice"
    /\ session = NoSession
    /\ now = 0
    /\ generated = 0
    /\ entities = PlaceEntities
    /\ links = {[id |-> 1, property_code |-> "P53", domain_id |-> 1, range_id |-> 2,
                 description |-> None]}
    /\ link_seq = 1
    /\ entity_seq = Len(PlaceEntities)
    /\ gis = {[entity_id |-> 2, shape |-> "point"]}
    /\ user_log = {}
    /\ pending = {}
    /\ response = Answer("init", None, None, None)

\* gis_points and gis_polygons as posted
GisData == {<<"[]", "[]">>, <<"point", "[]">>, <<"[]", InvalidPolygon>>}

\* the writes of a request that may raise: none, or one of the first ten
FaultPositions == 0..10

PlaceInsert ==
    /\ entity_seq + 2 <= MaxEntities
    /\ \E origin \in DOMAIN entities \cup {NoEntity},
          system_type \in {None, "human_remains"},
          submitted \in BOOLEAN :
         \E continue_ \in IF submitted THEN {"", "yes"} ELSE {""},
            gis_data \in IF submitted THEN GisData ELSE {<<"[]", "[]">>},
            fail_at \in IF submitted THEN FaultPositions ELSE {0} :
              place_insert(origin, system_type, submitted,
                           [name |-> "Hisarlik", description |-> "a mound",
                            continue_ |-> continue_, gis |-> gis_data,
                            opened |-> Nothing, dates |-> EmptyDateFields],
                           fail_at)
    /\ UNCHANGED authVars

PlaceUpdate ==
    /\ \E id_ \in {i \in DOMAIN entities : locations(i) # {}},
          submitted \in BOOLEAN :
         \E gis_data \in IF submitted THEN GisData ELSE {<<"[]", "[]">>},
            opened \in IF submitted THEN {Nothing, Some(0), Some(1)} ELSE {Nothing},
            fail_at \in IF submitted THEN FaultPositions ELSE {0} :
              place_update(id_, submitted,
                           [name |-> "Ilium", description |-> "a city",
                            continue_ |-> "", gis |-> gis_data,
                            opened |-> opened, dates |-> EmptyDateFields],
                           fail_at)
    /\ UNCHANGED authVars

PlaceIndex ==
    /\ \E action \in {None, "delete"}, id_ \in DOMAIN entities \cup {NoEntity} :
           place_index(action, id_)
    /\ UNCHANGED authVars

NextPlace ==
    \/ PlaceInsert
    \/ PlaceUpdate
    \/ PlaceIndex

SpecPlace == InitPlace /\ [][NextPlace]_vars

(***************************************************************************)
(* SpecConcurrent: place_update served by two workers. A request runs the  *)
(* handler up to the test of was_modified (place.py 128-146) in one step   *)
(* and save() (line 156) in a later one; in between the other worker and   *)
(* the clock may take steps.                                               *)
(***************************************************************************)
Clients == {1, 2}

\* the name each client enters
EnteredName == [c \in Clients |-> IF c = 1 THEN "Ilium" ELSE "Wilusa"]

\* place_update, lines 128-146: the entity is read and the valid form tested
\* with was_modified; a request that passes goes on to save()
place_update_check(client, id_, data) ==
    LET outcome == required_group("contributor")
        object_ == entities[id_]
        location == CHOOSE l \in locations(id_) : TRUE
        form == IF object_.system_type \in
                      {"feature", "stratigraphic unit", "find", "human remains"}
                THEN FeatureForm(data) ELSE PlaceForm(data)
        request == [client |-> client, id_ |-> id_, opened |-> data.opened]
    IN
    IF outcome # "run"
    THEN /\ response' = Answer("place_update_check",
                               IF outcome = "abort_403" THEN "abort" ELSE "redirect",
                               IF outcome = "abort_403" THEN "403" ELSE "/login", None)
                        @@ request
         /\ UNCHANGED <<entities, links, link_seq, placeVars>>
    ELSE IF was_modified(form, object_)
    THEN /\ response' = Answer("place_update_check", "render", "place/update.html",
                               "error modified")
                        @@ request
         /\ UNCHANGED <<entities, links, link_seq, placeVars>>
    ELSE /\ pending' = pending \cup {[client |-> client, id_ |-> id_, form |-> form,
                                      location |-> location]}
         /\ response' = Answer("place_update_check", "continue", None, None) @@ request
         /\ UNCHANGED <<entities, links, link_seq, entity_seq, gis, user_log>>

\* place_update, lines 156-157: save(form, object_, location) and the redirect
place_update_save(p) ==
    \E result \in {save(p.form, p.id_, p.location, NoEntity, None, 0)} :
        /\ saved(result)
        /\ pending' = pending \ {p}
        /\ response' = Answer("place_update_save", "redirect",
                              url_for("entity_view", [id_ |-> p.id_]), result.flash)
                       @@ [client |-> p.client, id_ |-> p.id_, opened |-> p.form.opened,
                           committed |-> result.committed, before |-> entities[p.id_]]

\* Troy, its location, the feature Wall below Troy and its location; the
\* feature was written at time 0
ConcurrentEntities ==
    PlaceEntities \o
    <<[EntityRow("E18", "feature", "Wall") EXCEPT !.modified = Some(0)],
      [EntityRow("E53", "place location", "Wall") EXCEPT !.modified = Some(0)]>>

InitConcurrent ==
    /\ users = [u \in Usernames |->
                    IF u = "Alice" THEN UserRow(u, "contributor", TRUE)
                    ELSE UserRow(u, "editor", TRUE)]
    /\ current_user = "Alice"
    /\ session = NoSession
    /\ now = 0
    /\ generated = 0
    /\ entities = ConcurrentEntities
    /\ links = {[id |-> 1, property_code |-> "P53", domain_id |-> 1, range_id |-> 2,
                 description |-> None],
                [id |-> 2, property_code |-> "P53", domain_id |-> 3, range_id |-> 4,
                 description |-> None],
                [id |-> 3, property_code |-> "P46", domain_id |-> 1, range_id |-> 3,
                 description |-> None]}
    /\ link_seq = 3
    /\ entity_seq = Len(ConcurrentEntities)
    /\ gis = {}
    /\ user_log = {}
    /\ pending = {}
    /\ response = Answer("init", None, None, None)

\* a client submits the update form of the feature, opened now or earlier
UpdateCheck ==
    /\ \E client \in Clients, opened \in {Some(t) : t \in 0..now} :
          /\ \A p \in pending : p.client # client
          /\ place_update_check(client, 3,
                                [name |-> EnteredName[client], description |-> "a wall",
                                 continue_ |-> "", gis |-> <<"[]", "[]">>,
                                 opened |-> opened, dates |-> EmptyDateFields])
    /\ UNCHANGED authVars

UpdateSave ==
    /\ \E p \in pending : place_update_save(p)
    /\ UNCHANGED authVars

NextConcurrent ==
    \/ UpdateCheck
    \/ UpdateSave
    \/ ClockTick

SpecConcurrent == InitConcurrent /\ [][NextConcurrent]_vars

(***************************************************************************)
(* views/event.py: event_insert, event_delete and event_update, behind     *)
(* required_group('editor'). The views call EntityMapper, which            *)
(* models/entity.py does not define: its insert, update and delete are     *)
(* taken to be those of Entity. The dates of a form are stored as posted.  *)
(***************************************************************************)
\* the row an event form is stored as: the name is stripped
event_row(row, name, description, dates) ==
    [row EXCEPT !.name = strip(name), !.description = description, !.dates = dates]

event_insert(code, submitted, name, description, dates, continue_) ==
    LET outcome == required_group("editor")
        request == [code |-> code, name |-> name, submitted |-> submitted]
        event == entity_seq + 1
    IN
    IF outcome # "run"
    THEN /\ response' = Answer("event_insert", IF outcome = "abort_403" THEN "abort"
                                               ELSE "redirect",
                               IF outcome = "abort_403" THEN "403" ELSE "/login", None)
                        @@ request
         /\ UNCHANGED <<entities, links, link_seq, placeVars>>
    ELSE IF submitted /\ name # EVENT_ROOT_NAME
    THEN /\ entities' = entities @@
                (event :> event_row(EntityRow(code, None, name), name, description, dates))
         /\ entity_seq' = event
         /\ response' = Answer("event_insert", "redirect",
                               IF continue_ = "yes"
                               THEN url_for("event_insert", [code |-> code])
                               ELSE url_for("event_view", [event_id |-> event]),
                               "entity created")
                        @@ request
         /\ UNCHANGED <<links, link_seq, gis, user_log, pending>>
    ELSE /\ response' = Answer("event_insert", "render", "event/insert.html", None)
                        @@ request
         /\ UNCHANGED <<entities, links, link_seq, placeVars>>

event_delete(event_id) ==
    LET outcome == required_group("editor")
        request == [event_id |-> event_id]
        w == delete_(Begin, {event_id})
    IN
    IF outcome # "run"
    THEN /\ response' = Answer("event_delete", IF outcome = "abort_403" THEN "abort"
                                               ELSE "redirect",
                               IF outcome = "abort_403" THEN "403" ELSE "/login", None)
                        @@ request
         /\ UNCHANGED <<entities, links, link_seq, placeVars>>
    ELSE IF entities[event_id].name = EVENT_ROOT_NAME
    THEN /\ response' = Answer("event_delete", "redirect",
                               [endpoint |-> "event_index"], "error forbidden")
                        @@ request
         /\ UNCHANGED <<entities, links, link_seq, placeVars>>
    ELSE IF w.exc # None
    THEN /\ response' = Answer("event_delete", "abort",
                               IF w.exc = "Forbidden" THEN "403" ELSE "500", None)
                        @@ request
         /\ UNCHANGED <<entities, links, link_seq, placeVars>>
    ELSE /\ entities' = deleted(Db, event_id).entities
         /\ links' = deleted(Db, event_id).links
         /\ response' = Answer("event_delete", "redirect",
                               [endpoint |-> "event_index"], "entity deleted")
                        @@ request
         /\ UNCHANGED <<link_seq, placeVars>>

event_update(event_id, submitted, name, description, dates) ==
    LET outcome == required_group("editor")
        request == [event_id |-> event_id, name |-> name, submitted |-> submitted]
    IN
    IF outcome # "run"
    THEN /\ response' = Answer("event_update", IF outcome = "abort_403" THEN "abort"
                                               ELSE "redirect",
                               IF outcome = "abort_403" THEN "403" ELSE "/login", None)
                        @@ request
         /\ UNCHANGED <<entities, links, link_seq, placeVars>>
    ELSE IF entities[event_id].name = EVENT_ROOT_NAME
    THEN /\ response' = Answer("event_update", "redirect",
                               [endpoint |-> "event_index"], "error forbidden")
                        @@ request
         /\ UNCHANGED <<entities, links, link_seq, placeVars>>
    ELSE IF submitted /\ name # EVENT_ROOT_NAME
    THEN /\ entities' = [entities EXCEPT ![event_id] =
                            [event_row(@, name, description, dates)
                                EXCEPT !.modified = Some(now)]]
         /\ response' = Answer("event_update", "redirect",
                               url_for("event_view", [event_id |-> event_id]),
                               "info update")
                        @@ request
         /\ UNCHANGED <<links, link_seq, placeVars>>
    ELSE /\ response' = Answer("event_update", "render", "event/update.html", None)
                        @@ request
         /\ UNCHANGED <<entities, links, link_seq, placeVars>>

\* the names posted: a new name, the name of the root event, and that name
\* followed by a blank
EventNames == {"Siege", EVENT_ROOT_NAME, EVENT_ROOT_NAME \o " "}

\* the dates posted: none, or a begin
EventDates == {NoDates, [NoDates EXCEPT !.begin_from = Some(<<1518, 1, 1>>)]}

\* the root event and one event below it
EventEntities ==
    <<[EntityRow("E5", None, EVENT_ROOT_NAME) EXCEPT !.description = "the root"],
      EntityRow("E7", None, "Battle")>>

InitEvent ==
    /\ \E group \in {"editor", "readonly"} :
         users = [u \in Usernames |->
                    IF u = "Alice" THEN UserRow(u, group, TRUE)
                    ELSE UserRow(u, "editor", TRUE)]
    /\ current_user = "Alice"
    /\ session = NoSession
    /\ now = 0
    /\ generated = 0
    /\ entities = EventEntities
    /\ links = {}
    /\ link_seq = 0
    /\ entity_seq = Len(EventEntities)
    /\ gis = {}
    /\ user_log = {}
    /\ pending = {}
    /\ response = Answer("init", None, None, None)

EventInsert ==
    /\ entity_seq + 1 <= MaxEntities
    /\ \E code \in {"E7"}, submitted \in BOOLEAN, name \in EventNames,
          dates \in EventDates, continue_ \in {"", "yes"} :
           event_insert(code, submitted, name, "a war", dates, continue_)
    /\ UNCHANGED authVars

EventDelete ==
    /\ \E event_id \in DOMAIN entities : event_delete(event_id)
    /\ UNCHANGED authVars

EventUpdate ==
    /\ \E event_id \in DOMAIN entities, submitted \in BOOLEAN, name \in EventNames,
          dates \in EventDates :
           event_update(event_id, submitted, name, "a long war", dates)
    /\ UNCHANGED authVars

NextEvent ==
    \/ EventInsert
    \/ EventDelete
    \/ EventUpdate

SpecEvent == InitEvent /\ [][NextEvent]_vars

(***************************************************************************)
(* models/entity.py: Entity.get_similar_named(form).                       *)
(*   form.classes: the class searched; form.ratio: the threshold           *)
(***************************************************************************)
MaxSimilar == 3         \* entities stored when the search runs

PersonNames == {"Anna", "Anne", "Hanna"}

\* fuzz.ratio(a, b) of the string-similarity library, on the names of the model
fuzz_ratio(a, b) ==
    IF a = b THEN 100
    ELSE IF {a, b} = {"Anna", "Anne"} THEN 75
    ELSE IF {a, b} = {"Anna", "Hanna"} THEN 89
    ELSE 67

\* Entity.get_by_class(class_): the ids of the entities of the class, in the
\* order the rows are read; the class of a row is its class_code here
get_by_class(class_) ==
    SelectSeq([i \in 1..Len(entities) |-> i], LAMBDA id_ : entities[id_].class_code = class_)

\* the inner loop without the test sample.id == entity.id
similar_to_mut(sample, ids, ratio) ==
    SelectSeq(ids, LAMBDA id_ :
        fuzz_ratio(entities[sample].name, entities[id_].name) >= ratio)

\* get_similar_named, lines 390-396: the entities the inner loop appends for
\* a sample
similar_to(sample, ids, ratio) ==
    SelectSeq(ids, LAMBDA id_ :
        /\ sample # id_
        /\ fuzz_ratio(entities[sample].name, entities[id_].name) >= ratio)

\* the elements of a list
Elements(list) == {list[i] : i \in DOMAIN list}

\* get_similar_named, lines 386-396: the outer loop from the i-th entity on;
\* similar maps a sample to the list of its similar entities
RECURSIVE similar_loop(_, _, _, _, _)
similar_loop(ids, i, similar, already_added, ratio) ==
    IF i > Len(ids) THEN similar
    ELSE IF ids[i] \in already_added
    THEN similar_loop(ids, i + 1, similar, already_added, ratio)
    ELSE LET found == similar_to(ids[i], ids, ratio) IN
         similar_loop(ids, i + 1, similar @@ (ids[i] :> found),
                      IF found = <<>> THEN already_added
                      ELSE already_added \cup {ids[i]} \cup Elements(found),
                      ratio)

\* Entity.get_similar_named(form): the samples with their non-empty lists
get_similar_named(class_, ratio) ==
    LET similar == similar_loop(get_by_class(class_), 1, <<>>, {}, ratio)
    IN  [id_ \in {k \in DOMAIN similar : similar[k] # <<>>} |-> similar[id_]]

\* up to MaxSimilar persons and places with the names of PersonNames
InitSimilar ==
    /\ users = [u \in Usernames |-> UserRow(u, "editor", TRUE)]
    /\ current_user = "Alice"
    /\ session = NoSession
    /\ now = 0
    /\ generated = 0
    /\ \E n \in 0..MaxSimilar :
         entities \in [1..n -> {EntityRow(c, None, name) :
                                    c \in {"E21", "E18"}, name \in PersonNames}]
    /\ links = {}
    /\ link_seq = 0
    /\ entity_seq = Len(entities)
    /\ gis = {}
    /\ user_log = {}
    /\ pending = {}
    /\ response = Answer("init", None, None, None)

GetSimilarNamed ==
    /\ \E class_ \in {"E21", "E18"}, ratio \in {70, 80, 100} :
          response' = [op |-> "get_similar_named", classes |-> class_, ratio |-> ratio,
                       result |-> get_similar_named(class_, ratio)]
    /\ UNCHANGED <<authVars, linkVars, placeVars>>

NextSimilar == GetSimilarNamed

SpecSimilar == InitSimilar /\ [][NextSimilar]_vars

(***************************************************************************)
(* Claims about save().                                                    *)
(***************************************************************************)
\* every place object has a location: a P53 link to a stored E53 entity
PlacesHaveLocations ==
    \A id_ \in DOMAIN entities :
        entities[id_].class_code \in {"E18", "E20", "E22"} =>
            \E l \in links :
                /\ l.property_code = "P53"
                /\ l.domain_id = id_
                /\ l.range_id \in DOMAIN entities
                /\ entities[l.range_id].class_code = "E53"

\* the statements of a transaction that are not BEGIN, COMMIT or ROLLBACK
IsWrite(statement) == statement \notin {"BEGIN", "COMMIT", "ROLLBACK"}

\* C6: save() is all-or-nothing. Its first statement is BEGIN and every write
\* to the entity, link and gis tables comes after it; when no write raised,
\* COMMIT follows the last of them; when one raised (or the form brought an
\* invalid geometry), no COMMIT is executed, the last statement is ROLLBACK and
\* the entity, link and gis tables and the user log are as they were before
\* the request. After either outcome every place object has its location
\* entity and the P53 link between them.
Thm_C6_save_all_or_nothing ==
    [][(response'.op \in {"place_insert", "place_update"} /\ response'.saved) =>
          LET st == response'.statements
              n == Len(st)
          IN  /\ st[1] = "BEGIN"
              /\ \A k \in 2..n : st[k] # "BEGIN"
              /\ response'.committed =>
                    /\ \E k \in 2..n :
                          /\ st[k] = "COMMIT"
                          /\ \A j \in 2..(k - 1) : IsWrite(st[j])
                          /\ \A j \in (k + 1)..n : ~IsWrite(st[j])
              /\ ~response'.committed =>
                    /\ st[n] = "ROLLBACK"
                    /\ \A k \in 2..(n - 1) : IsWrite(st[k])
                    /\ entities' = entities
                    /\ links' = links
                    /\ gis' = gis
                    /\ user_log' = user_log
              /\ PlacesHaveLocations'
    ]_vars

\* C6 witness: an insert wrote the object, its location and the P53 link
\* (the serials moved on), a later write raised, and the ROLLBACK left the
\* place Troy and its location as the only entities
Wit_C6_rolled_back_after_writes ==
    /\ response.op = "place_insert"
    /\ response.saved
    /\ ~response.committed
    /\ Len(response.statements) >= 5
    /\ response.statements[Len(response.statements)] = "ROLLBACK"
    /\ entity_seq = Len(PlaceEntities) + 2
    /\ link_seq = 2
    /\ DOMAIN entities = 1..Len(PlaceEntities)
    /\ Cardinality(links) = 1

\* C9 as stated: a valid insert form (no write fails for a reason outside
\* the handler, the geometry is valid) creates the entity and commits, with
\* or without continue_ = 'yes'; with it the response redirects to the insert
\* form for the same origin, without it to a view showing the new entity
Orig_C9_insert_and_continue ==
    [][(/\ response'.op = "place_insert"
        /\ response'.saved
        /\ response'.fail_at = 0
        /\ response'.form.gis_polygons # InvalidPolygon) =>
          LET created == entity_seq + 1
          IN  /\ response'.committed
              /\ created \in DOMAIN entities'
              /\ entities'[created].name = response'.form.name
              /\ IF response'.form.continue_ = "yes"
                 THEN /\ response'.target.endpoint = "place_insert"
                      /\ response'.target.origin_id = response'.origin
                 ELSE /\ response'.target.endpoint = "entity_view"
                      /\ response'.target.id_ \in {created, response'.origin}
    ]_vars

\* C9: the part that holds. An insert below a place, where the form is a
\* FeatureForm, creates the feature and redirects as stated
Wit_C9_feature_continued ==
    /\ response.op = "place_insert"
    /\ response.saved
    /\ response.committed
    /\ response.form.continue_ = "yes"
    /\ response.target = url_for("place_insert",
                                 [origin_id |-> 1, system_type |-> "feature"])
    /\ 3 \in DOMAIN entities
    /\ entities[3].system_type = "feature"

\* C9: what happens instead for a new place. The form is a PlaceForm, the
\* statement of Entity.delete_ is rejected, nothing is created and the
\* response redirects to the place index with an error
Wit_C9_place_not_created ==
    /\ response.op = "place_insert"
    /\ response.saved
    /\ response.fail_at = 0
    /\ response.origin = NoEntity
    /\ response.form.continue_ = "yes"
    /\ response.exc = "ProgrammingError"
    /\ ~response.committed
    /\ response.target = [endpoint |-> "place_index"]
    /\ response.flash = "error transaction"
    /\ DOMAIN entities = 1..Len(PlaceEntities)

(***************************************************************************)
(* Claims about place_index and place_update, checked under SpecPlace.     *)
(***************************************************************************)
\* the entity has a P46 link to a stored subunit
HasSubunit(id_) ==
    \E l \in links :
        /\ l.property_code = "P46"
        /\ l.domain_id = id_
        /\ l.range_id \in DOMAIN entities

\* every subunit has its parent: both ends of each P46 link are stored
SubunitsHaveParents ==
    \A l \in links :
        l.property_code = "P46" =>
            l.domain_id \in DOMAIN entities /\ l.range_id \in DOMAIN entities

\* the request asks place_index to delete a stored entity
AsksDelete(r) ==
    /\ r.op = "place_index"
    /\ r.action = "delete"
    /\ r.id_ \in DOMAIN entities

\* C14: the delete action of place_index never deletes an entity that has a
\* P46 link to a subunit: it flashes the error, redirects to the view of the
\* entity and leaves the entities, the links and the user log as they are.
\* After every request every subunit still has its parent.
Thm_C14_no_delete_with_subunits ==
    [][/\ (AsksDelete(response') /\ HasSubunit(response'.id_)) =>
             /\ response'.kind = "redirect"
             /\ response'.target = url_for("entity_view", [id_ |-> response'.id_])
             /\ response'.flash = "Deletion not possible if subunits exists"
             /\ entities' = entities
             /\ links' = links
             /\ user_log' = user_log
       /\ SubunitsHaveParents'
    ]_vars

\* the place Troy has got a feature, and its deletion was refused
Wit_C14_refused ==
    /\ response.op = "place_index"
    /\ response.action = "delete"
    /\ response.id_ = 1
    /\ response.flash = "Deletion not possible if subunits exists"
    /\ 3 \in DOMAIN entities
    /\ entities[3].system_type = "feature"
    /\ \E l \in links : l.property_code = "P46" /\ l.domain_id = 1 /\ l.range_id = 3

\* C18: a request to place_index by a user of group readonly removes no
\* entity and no link and writes nothing to the user log; its delete action on
\* an entity without subunits is aborted with 403.
Thm_C18_readonly_deletes_nothing ==
    [][(/\ response'.op = "place_index"
        /\ is_authenticated(current_user)
        /\ users[current_user].group = "readonly") =>
             /\ entities' = entities
             /\ links' = links
             /\ user_log' = user_log
             /\ (AsksDelete(response') /\ ~HasSubunit(response'.id_)) =>
                   /\ response'.kind = "abort"
                   /\ response'.target = "403"
    ]_vars

\* the readonly user Alice asked to delete the place Troy and got 403; Troy
\* and its location are stored as before
Wit_C18_forbidden ==
    /\ response.op = "place_index"
    /\ response.action = "delete"
    /\ response.id_ = 1
    /\ response.kind = "abort"
    /\ response.target = "403"
    /\ users["Alice"].group = "readonly"
    /\ entities = PlaceEntities
    /\ user_log = {}

\* the entity was modified at or after the time the form was opened
ModifiedSince(entity, opened) ==
    /\ entity.modified # Nothing
    /\ opened # Nothing
    /\ entity.modified[1] >= opened[1]

Orig_C16_no_lost_update ==
    [][(response'.op = "place_update_save" /\ response'.committed) =>
          ~ModifiedSince(entities[response'.id_], response'.opened)
    ]_vars

\* C16: what happens instead. Both forms were opened at time 1 and passed
\* was_modified before either was saved; client 1 saved 'Ilium' at time 1, and
\* the save of client 2 then wrote 'Wilusa' over it
Wit_C16_lost_update ==
    /\ response.op = "place_update_save"
    /\ response.client = 2
    /\ response.committed
    /\ response.opened = Some(1)
    /\ response.before.name = "Ilium"
    /\ response.before.modified = Some(1)
    /\ entities[3].name = "Wilusa"
    /\ pending = {}

(***************************************************************************)
(* Claims about the event views, checked under SpecEvent.                  *)
(***************************************************************************)
\* the stored entities named EVENT_ROOT_NAME, with all they hold
RootEvents ==
    {<<id_, entities[id_]>> : id_ \in {i \in DOMAIN entities :
                                          entities[i].name = EVENT_ROOT_NAME}}

\* C17 as stated: over any sequence of event_insert, event_update and
\* event_delete requests the set of stored entities named EVENT_ROOT_NAME
\* never changes: none is created, deleted or renamed, no other event is
\* renamed to that name, and description and dates of the root stay.
Orig_C17_root_immutable ==
    [][response'.op \in {"event_insert", "event_update", "event_delete"} =>
          RootEvents' = RootEvents
    ]_vars

\* C17: what happens instead. The name posted to event_insert is the root
\* name followed by a blank: it differs from EVENT_ROOT_NAME, is stripped when
\* stored, and a second entity with the root name exists
Wit_C17_second_root ==
    /\ response.op = "event_insert"
    /\ response.name = EVENT_ROOT_NAME \o " "
    /\ response.flash = "entity created"
    /\ 3 \in DOMAIN entities
    /\ entities[3].name = EVENT_ROOT_NAME
    /\ entities[1].name = EVENT_ROOT_NAME

\* C17: the part that holds. A request that posts, or addresses, exactly the
\* root name leaves every entity as it is
Wit_C17_exact_name_refused ==
    /\ response.op = "event_update"
    /\ response.event_id = 1
    /\ response.submitted
    /\ response.flash = "error forbidden"
    /\ entities = EventEntities

(***************************************************************************)
(* Claims about Entity.get_similar_named, checked under SpecSimilar.       *)
(***************************************************************************)
\* the entities of the class searched
OfClass(class_) == {id_ \in DOMAIN entities : entities[id_].class_code = class_}

\* two entities whose names have a ratio at or above the threshold
Similar(a, b, ratio) == fuzz_ratio(entities[a].name, entities[b].name) >= ratio

\* C19: in the result of get_similar_named every entry has a non-empty list,
\* no entity is listed under itself, each listed entity is of the class and
\* has ratio >= threshold to its key, and every entity of the class that has
\* another entity of the class with ratio >= threshold is a key or is listed
\* under some key.
Thm_C19_similar_named ==
    response.op = "get_similar_named" =>
        LET result == response.result
            ratio == response.ratio
            class == OfClass(response.classes)
        IN  /\ DOMAIN result \subseteq class
            /\ \A key \in DOMAIN result :
                  /\ result[key] # <<>>
                  /\ \A i \in DOMAIN result[key] :
                        /\ result[key][i] # key
                        /\ result[key][i] \in class
                        /\ Similar(key, result[key][i], ratio)
            /\ \A id_ \in class :
                  (\E other \in class \ {id_} : Similar(id_, other, ratio)) =>
                      \/ id_ \in DOMAIN result
                      \/ \E key \in DOMAIN result :
                            \E i \in DOMAIN result[key] : result[key][i] = id_

\* Anne, Hanna and Anna with threshold 70: Anne and Hanna each find Anna only;
\* Anna is no sample of its own and is listed under both keys
Wit_C19_chain ==
    /\ response.op = "get_similar_named"
    /\ response.ratio = 70
    /\ response.classes = "E21"
    /\ Len(entities) = 3
    /\ entities[1].name = "Anne" /\ entities[2].name = "Hanna"
    /\ entities[3].name = "Anna"
    /\ \A i \in 1..3 : entities[i].class_code = "E21"
    /\ DOMAIN response.result = {1, 2}
    /\ response.result[1] = <<3>>
    /\ response.result[2] = <<3>>

====
